---------------------------- MODULE Spec2Model ----------------------------
(***************************************************************************)
(* Setheum: the SERP treasury pallets and the position ledger              *)
(* (settmint-manager) they cooperate with.                                 *)
(*                                                                         *)
(*   - position ledger: settmint-manager (its lib.rs is not part of the    *)
(*     sources; the operations are modelled from the specification and     *)
(*     from src/lib-serml/settmint/settmint-manager/src/tests.rs)          *)
(*   - treasury pools and auction lots: src/lib-serml/serp-treasury        *)
(*   - elasticity engine: src/lib-serml/serp/serp-treasury                 *)
(*                                                                         *)
(* Balance is u128 and Amount is i128 in the code.  The model keeps the    *)
(* shape of the two ranges (MaxBalance = 2 * MaxAmount + 1) on a smaller   *)
(* width.                                                                  *)
(***************************************************************************)
EXTENDS Integers, Sequences, FiniteSets, TLC

\* Stand-in for Balance::MAX (u128::MAX in the code).
MaxBalance == 268435455

\* Stand-in for Amount::MAX (i128::MAX): half the Balance range.
MaxAmount == MaxBalance \div 2

\* Consumer references an account may hold before it opens any position.
MaxOtherRefs == 1

\* T::MaxAuctionsCount: the cap of lots when an auction is created.
MaxAuctionsCount == 10

\* Calls of adjust_position that a behaviour follows.
MaxAdjustCalls == 2

\* Direct calls of SerpTreasuryExtended that a behaviour follows.
MaxTraitCalls == 1

\* Calls of the elasticity engine that a behaviour follows.
MaxSerpCalls == 2

\* Largest price the price feed is tried with, besides the sample prices.
MaxPrice == 4

\* The floor T::GetStableCurrencyMinimumSupply gives to a stable currency
\* that has one.
MinimumSupply == 100

\* T::SerpTesSchedule: the elasticity pass runs every SerpTesSchedule blocks.
SerpTesSchedule == 2

\* The last block a behaviour follows.
MaxBlock == 3

\* Largest price the oracle feeds to the elasticity pass.
MaxFeedPrice == 3

None == 0 - 1

Min(a, b) == IF a < b THEN a ELSE b

Abs(a) == IF a < 0 THEN 0 - a ELSE a

\* Balance::checked_add / checked_sub: None outside 0..MaxBalance.
checked_add(a, b) == IF a + b > MaxBalance THEN None ELSE a + b

checked_sub(a, b) == IF a < b THEN None ELSE a - b

saturating_add(a, b) == IF a + b > MaxBalance THEN MaxBalance ELSE a + b

saturating_sub(a, b) == IF a < b THEN 0 ELSE a - b

\* (a * b exceeds MaxBalance exactly when a exceeds floor(MaxBalance / b))
saturating_mul(a, b) ==
    IF a = 0 \/ b = 0 THEN 0
    ELSE IF a > MaxBalance \div b THEN MaxBalance ELSE a * b

---------------------------------------------------------------------------
(* Accounts and currencies                                                 *)

ALICE == "ALICE"

BOB == "BOB"

\* SettmintManagerModule::account_id()
SETTMINT == "SETTMINT"

EURJ == "EURJ"

SETR == "SETR"

USDJ == "USDJ"

DNAR == "DNAR"

DRAM == "DRAM"

CAROL == "CAROL"

\* serp-treasury (treasury pools and auctions): Pallet::account_id()
TREASURY == "TREASURY"

\* serp/serp-treasury (elasticity engine): Pallet::account_id()
SERP == "SERP"

\* T::SettPayTreasuryAcc and T::CharityFundAcc
SETTPAY == "SETTPAY"

CHARITY == "CHARITY"

\* The DEX module account, holding the liquidity pools.
DEX == "DEX"

Accounts == {ALICE, BOB}

\* The currencies positions are opened in.
PosCurrencies == {EURJ}

\* GetReserveCurrencyId of the position ledger: the currency the reserve is
\* held in (tests.rs reads the module account's SETR balance).
ReserveCurrency == SETR

LedgerAccounts ==
    {ALICE, BOB, CAROL, SETTMINT, TREASURY, SERP, SETTPAY, CHARITY, DEX}

LedgerCurrencies == {SETR, USDJ, DNAR, EURJ, DRAM}

\* The deltas and amounts the calls are tried with.
Amounts == {0 - MaxAmount, 0, MaxAmount}

VARIABLES
    Positions,        \* storage double map (currency, account) -> Position
    TotalPositions,   \* storage map currency -> Position
    Consumers,        \* frame_system consumers reference count per account
    FreeBalance,      \* currency ledger: (currency, account) -> free balance
    pos_last,         \* the last position-ledger call and its result
    applied,          \* history: sum of the deltas of the successful updates
    transferred,      \* history: a transfer_position has succeeded
    consumers0,       \* history: Consumers before any position was opened
    adjust_calls,     \* history: the calls of adjust_position so far
    conversion,       \* runtime configuration: how a halved amount is rounded
    TotalIssuance,    \* currency ledger: currency -> total issuance
    StandardPool,     \* treasury storage value: the bad standard of the system
    ExpectedSetterAuctionSize,  \* treasury storage map currency -> Balance
    ReserveInAuction, \* auction subsystem: currency -> reserve in auction
    Lots,             \* auction subsystem: the lots the last call registered
    SerplusInAuction, \* auction subsystem: the serplus in auction
    StandardInAuction, \* auction subsystem: the standard in auction
    t_last,           \* the last treasury call and its result
    last_offset,      \* history: what the last call offset from the two pools
    trait_calls,      \* history: calls made through SerpTreasuryExtended
    serp_last,        \* the last call of the elasticity engine and its result
    serp_calls,       \* how many calls of the elasticity engine have acted
    supply_change_args,   \* <<nume_fraction, deno_fraction, supply>>
    supply_change_result, \* what get_supply_change gave for them
    dex_calls,        \* history: the calls the last on_serpdown made to the DEX
    GetStableCurrencyMinimumSupply, \* runtime configuration: currency -> floor
    block_number,     \* frame_system: the number of the last block begun
    tes_last,         \* what the last on_initialize did
    serp_events,      \* the events the last call of the engine deposited
    subsystem         \* which part of the runtime the behaviour exercises

pos_vars == <<Positions, TotalPositions, Consumers, pos_last,
              applied, transferred, consumers0, adjust_calls, conversion>>

ledger_vars == <<FreeBalance, TotalIssuance>>

treasury_vars == <<StandardPool, ExpectedSetterAuctionSize, ReserveInAuction,
                   Lots, SerplusInAuction, StandardInAuction, t_last, last_offset,
                   trait_calls>>

serp_vars == <<serp_last, serp_calls, supply_change_args, supply_change_result,
              dex_calls, GetStableCurrencyMinimumSupply>>

tes_vars == <<block_number, tes_last, serp_events>>

vars == <<pos_vars, ledger_vars, treasury_vars, serp_vars, tes_vars, subsystem>>

---------------------------------------------------------------------------
(* Currency ledger (orml Currencies)                                       *)

\* MultiCurrency::transfer: fails when `from` holds less than `amount`
\* (or the receiver's balance would leave the Balance range); otherwise
\* gives the new balances.
ledger_transfer(fb, cur, from, to, amount) ==
    IF fb[<<cur, from>>] < amount THEN [ok |-> FALSE, fb |-> fb]
    ELSE IF from = to THEN [ok |-> TRUE, fb |-> fb]
    ELSE IF fb[<<cur, to>>] + amount > MaxBalance THEN [ok |-> FALSE, fb |-> fb]
    ELSE [ok |-> TRUE,
          fb |-> [fb EXCEPT ![<<cur, from>>] = @ - amount,
                            ![<<cur, to>>] = @ + amount]]

\* MultiCurrency::deposit on a state with FreeBalance and TotalIssuance:
\* mints `amount`; fails when the total issuance would leave the Balance
\* range.  A zero amount changes nothing.
ledger_deposit(st, cur, who, amount) ==
    IF amount = 0 THEN [ok |-> TRUE, st |-> st]
    ELSE IF checked_add(st.TotalIssuance[cur], amount) = None
    THEN [ok |-> FALSE, st |-> st]
    ELSE [ok |-> TRUE,
          st |-> [st EXCEPT !.TotalIssuance[cur] = @ + amount,
                            !.FreeBalance[<<cur, who>>] = @ + amount]]

\* MultiCurrency::withdraw: burns `amount`; fails when `who` holds less.
ledger_withdraw(st, cur, who, amount) ==
    IF amount = 0 THEN [ok |-> TRUE, st |-> st]
    ELSE IF st.FreeBalance[<<cur, who>>] < amount
    THEN [ok |-> FALSE, st |-> st]
    ELSE [ok |-> TRUE,
          st |-> [st EXCEPT !.TotalIssuance[cur] = @ - amount,
                            !.FreeBalance[<<cur, who>>] = @ - amount]]

\* MultiCurrency::transfer on a state with FreeBalance.
ledger_move(st, cur, from, to, amount) ==
    LET t == ledger_transfer(st.FreeBalance, cur, from, to, amount)
    IN  [ok |-> t.ok, st |-> [st EXCEPT !.FreeBalance = t.fb]]

---------------------------------------------------------------------------
(* Position ledger                                                         *)

ZeroPosition == [reserve |-> 0, standard |-> 0]

\* The getter `positions(currency, who)`: a ValueQuery, zero when absent.
positions(ps, cur, who) ==
    IF <<cur, who>> \in DOMAIN ps THEN ps[<<cur, who>>] ELSE ZeroPosition

contains_key(ps, cur, who) == <<cur, who>> \in DOMAIN ps

\* The part of the state the position ledger reads and writes.
PosState ==
    [Positions |-> Positions, TotalPositions |-> TotalPositions,
     Consumers |-> Consumers, FreeBalance |-> FreeBalance,
     TotalIssuance |-> TotalIssuance]

\* Outcomes of a checked update of one field that are not a new value.
UnderflowErr == 0 - 1

OverflowErr == 0 - 2

apply_delta_saturating(value, delta) ==
    IF delta >= 0 THEN saturating_add(value, delta)
    ELSE saturating_sub(value, 0 - delta)

apply_delta_unsigned(value, delta) ==
    IF value + Abs(delta) > MaxBalance THEN OverflowErr ELSE value + Abs(delta)

\* apply_delta on unsigned integers that wrap around above the range.
apply_delta_wrapping(value, delta) ==
    IF value + delta < 0 THEN UnderflowErr
    ELSE (value + delta) % (MaxBalance + 1)

\* New value of one field under a signed delta, with checked arithmetic:
\* Underflow below zero, Overflow above the Balance range.
apply_delta(value, delta) ==
    IF value + delta < 0 THEN UnderflowErr
    ELSE IF value + delta > MaxBalance THEN OverflowErr
    ELSE value + delta

total_delta_reserve_only(t, rd, sd) ==
    [reserve |-> apply_delta(t.reserve, rd), standard |-> t.standard]

\* The totals of a currency move by the same deltas as the position.
total_delta(t, rd, sd) ==
    [reserve |-> apply_delta(t.reserve, rd),
     standard |-> apply_delta(t.standard, sd)]

store_position_always(ps, key, np) ==
    [k \in DOMAIN ps \cup {key} |-> IF k = key THEN np ELSE ps[k]]

\* The record after an update: a position with both fields zero is removed
\* from the store, any other is written.
store_position(ps, key, np) ==
    IF np.reserve = 0 /\ np.standard = 0
    THEN [k \in DOMAIN ps \ {key} |-> ps[k]]
    ELSE [k \in DOMAIN ps \cup {key} |-> IF k = key THEN np ELSE ps[k]]

\* frame_system dec_consumers does not go below zero.
dec_consumers(n) == IF n > 0 THEN n - 1 ELSE 0

consumers_after_dec_when_zero(n, existed, np) ==
    IF np.reserve = 0 /\ np.standard = 0 THEN dec_consumers(n)
    ELSE IF ~existed THEN n + 1
    ELSE n

\* The reference count of the account after an update: one more when the
\* update creates the record, one less when it deletes it.
consumers_after(n, existed, np) ==
    IF np.reserve = 0 /\ np.standard = 0
    THEN (IF existed THEN dec_consumers(n) ELSE n)
    ELSE IF ~existed THEN n + 1
    ELSE n

\* update_position that also takes the reserve adjustment from `who`'s
\* balance of the reserve currency when `who` holds it.
update_position_moving_reserve(st, who, cur, rd, sd) ==
    LET p       == positions(st.Positions, cur, who)
        existed == contains_key(st.Positions, cur, who)
        np      == [reserve |-> apply_delta(p.reserve, rd),
                    standard |-> apply_delta(p.standard, sd)]
        nt      == total_delta(st.TotalPositions[cur], rd, sd)
        outs    == {np.reserve, np.standard, nt.reserve, nt.standard}
        moved   == IF rd > 0
                   THEN ledger_transfer(st.FreeBalance, ReserveCurrency, who, SETTMINT, rd).fb
                   ELSE st.FreeBalance
    IN  IF UnderflowErr \in outs THEN [result |-> "Underflow", st |-> st]
        ELSE IF OverflowErr \in outs THEN [result |-> "Overflow", st |-> st]
        ELSE [result |-> "Ok",
              st |-> [st EXCEPT
                        !.Positions = store_position(st.Positions, <<cur, who>>, np),
                        !.TotalPositions[cur] = nt,
                        !.Consumers[who] =
                            consumers_after(st.Consumers[who], existed, np),
                        !.FreeBalance = moved]]

\* update_position(who, currency, reserve_adjustment, standard_adjustment):
\* updates the record, the totals and the reference count; moves no funds.
\* It fails with Underflow whenever a field would go below zero, also when
\* the other field would exceed the range; otherwise with Overflow when a
\* field would exceed the range.
update_position(st, who, cur, rd, sd) ==
    LET p       == positions(st.Positions, cur, who)
        existed == contains_key(st.Positions, cur, who)
        np      == [reserve |-> apply_delta(p.reserve, rd),
                    standard |-> apply_delta(p.standard, sd)]
        nt      == total_delta(st.TotalPositions[cur], rd, sd)
        outs    == {np.reserve, np.standard, nt.reserve, nt.standard}
    IN  IF UnderflowErr \in outs THEN [result |-> "Underflow", st |-> st]
        ELSE IF OverflowErr \in outs THEN [result |-> "Overflow", st |-> st]
        ELSE [result |-> "Ok",
              st |-> [st EXCEPT
                        !.Positions = store_position(st.Positions, <<cur, who>>, np),
                        !.TotalPositions[cur] = nt,
                        !.Consumers[who] =
                            consumers_after(st.Consumers[who], existed, np)]]

\* The conversion of an adjustment into an amount of the ledger, as the
\* tests assert it: 100 for 200 and 250 for 500 of the reserve currency, 150
\* for 300 of the standard currency.  The tests assert no amount for an odd
\* adjustment: its half is rounded down or up, as the runtime is configured.
convert(amount) ==
    IF conversion = "half_up" THEN (amount + 1) \div 2 ELSE amount \div 2

\* The amount of the reserve currency adjust_position moves for
\* reserve_adjustment.
reserve_balance_adjustment(rd) == convert(Abs(rd))

\* The amount of the standard currency adjust_position issues to `who` or
\* burns from `who` for standard_adjustment.
standard_balance_adjustment(sd) == convert(Abs(sd))

\* adjust_position moving the reserve to the module's account whatever the
\* sign of the adjustment.
adjust_position_one_direction(st, who, cur, rd, sd) ==
    LET u      == update_position(st, who, cur, rd, sd)
        moved  == IF rd # 0
                  THEN ledger_move(u.st, ReserveCurrency, who, SETTMINT,
                                   reserve_balance_adjustment(rd))
                  ELSE [ok |-> TRUE, st |-> u.st]
        issued == IF sd > 0
                  THEN ledger_deposit(moved.st, cur, who, standard_balance_adjustment(sd))
                  ELSE IF sd < 0
                  THEN ledger_withdraw(moved.st, cur, who, standard_balance_adjustment(sd))
                  ELSE [ok |-> TRUE, st |-> moved.st]
    IN  IF u.result # "Ok" THEN u
        ELSE IF ~moved.ok THEN [result |-> "BalanceTooLow", st |-> st]
        ELSE IF ~issued.ok
        THEN [result |-> IF sd > 0 THEN "Overflow" ELSE "BalanceTooLow", st |-> st]
        ELSE [result |-> "Ok", st |-> issued.st]

\* adjust_position(who, currency, reserve_adjustment, standard_adjustment):
\* update_position, then the reserve moves between `who` and the module
\* account and the standard is issued to `who` or burnt from `who`; any
\* failure leaves the state as it was.
adjust_position(st, who, cur, rd, sd) ==
    LET u      == update_position(st, who, cur, rd, sd)
        moved  == IF rd > 0
                  THEN ledger_move(u.st, ReserveCurrency, who, SETTMINT,
                                   reserve_balance_adjustment(rd))
                  ELSE IF rd < 0
                  THEN ledger_move(u.st, ReserveCurrency, SETTMINT, who,
                                   reserve_balance_adjustment(rd))
                  ELSE [ok |-> TRUE, st |-> u.st]
        issued == IF sd > 0
                  THEN ledger_deposit(moved.st, cur, who, standard_balance_adjustment(sd))
                  ELSE IF sd < 0
                  THEN ledger_withdraw(moved.st, cur, who, standard_balance_adjustment(sd))
                  ELSE [ok |-> TRUE, st |-> moved.st]
    IN  IF u.result # "Ok" THEN u
        ELSE IF ~moved.ok THEN [result |-> "BalanceTooLow", st |-> st]
        ELSE IF ~issued.ok
        THEN [result |-> IF sd > 0 THEN "Overflow" ELSE "BalanceTooLow", st |-> st]
        ELSE [result |-> "Ok", st |-> issued.st]

transfer_position_keep_from(st, from, to, cur) ==
    LET p  == positions(st.Positions, cur, from)
        u2 == update_position(st, to, cur, p.reserve, p.standard)
    IN  IF ~contains_key(st.Positions, cur, from)
        THEN [result |-> "NoPosition", st |-> st]
        ELSE IF u2.result # "Ok" THEN [result |-> u2.result, st |-> st]
        ELSE [result |-> "Ok", st |-> u2.st]

\* transfer_position without the check that `from` has a position.
transfer_position_no_check(st, from, to, cur) ==
    LET p  == positions(st.Positions, cur, from)
        u1 == update_position(st, from, cur, 0 - p.reserve, 0 - p.standard)
        u2 == update_position(u1.st, to, cur, p.reserve, p.standard)
    IN  IF u1.result # "Ok" THEN [result |-> u1.result, st |-> st]
        ELSE IF u2.result # "Ok" THEN [result |-> u2.result, st |-> st]
        ELSE [result |-> "Ok", st |-> u2.st]

\* transfer_position(from, to, currency): the whole of `from`'s position is
\* taken off `from` and added onto `to`, both through update_position.
transfer_position(st, from, to, cur) ==
    LET p  == positions(st.Positions, cur, from)
        u1 == update_position(st, from, cur, 0 - p.reserve, 0 - p.standard)
        u2 == update_position(u1.st, to, cur, p.reserve, p.standard)
    IN  IF ~contains_key(st.Positions, cur, from)
        THEN [result |-> "NoPosition", st |-> st]
        ELSE IF u1.result # "Ok" THEN [result |-> u1.result, st |-> st]
        ELSE IF u2.result # "Ok" THEN [result |-> u2.result, st |-> st]
        ELSE [result |-> "Ok", st |-> u2.st]

---------------------------------------------------------------------------
(* Treasury pools and auction lots: lib-serml/serp-treasury                *)

\* T::GetStableCurrencyId
GetStableCurrencyId == USDJ

\* The part of the state the treasury reads and writes.
TreasuryState ==
    [StandardPool |-> StandardPool, FreeBalance |-> FreeBalance,
     TotalIssuance |-> TotalIssuance,
     ExpectedSetterAuctionSize |-> ExpectedSetterAuctionSize,
     ReserveInAuction |-> ReserveInAuction, Lots |-> Lots,
     SerplusInAuction |-> SerplusInAuction,
     StandardInAuction |-> StandardInAuction]

\* Get current total serplus of system.
serpluspool(st) == st.FreeBalance[<<GetStableCurrencyId, TREASURY>>]

\* Get total reserve amount of SERP Treasury module.
total_reserves(st, cur) == st.FreeBalance[<<cur, TREASURY>>]

\* total_reserves_not_in_auction without the part in auction.
total_reserves_not_in_auction_counts_all(st, cur) ==
    st.FreeBalance[<<cur, TREASURY>>]

\* Get reserve amount not in auction.
total_reserves_not_in_auction(st, cur) ==
    saturating_sub(st.FreeBalance[<<cur, TREASURY>>], st.ReserveInAuction[cur])

offset_amount_standard_only(st) == st.StandardPool

offset_amount_larger_pool(st) ==
    IF st.StandardPool > serpluspool(st) THEN st.StandardPool ELSE serpluspool(st)

\* Half of the smaller pool.
offset_amount_half(st) == Min(st.StandardPool, serpluspool(st)) \div 2

\* The amount both pools are reduced by.
offset_amount(st) == Min(st.StandardPool, serpluspool(st))

\* The `expect` of offset_serplusand_standard fails: the withdrawal went
\* through and the standard pool is smaller than the offset.
offset_panics(st) ==
    /\ offset_amount(st) # 0
    /\ ledger_withdraw(st, GetStableCurrencyId, TREASURY, offset_amount(st)).ok
    /\ checked_sub(st.StandardPool, offset_amount(st)) = None

offset_keeps_standard_pool(st) ==
    LET w == ledger_withdraw(st, GetStableCurrencyId, TREASURY, offset_amount(st))
    IN  IF offset_amount(st) # 0 /\ w.ok THEN w.st ELSE st

\* offset_serplusand_standard: burn the offset from the treasury's stable
\* balance and, when the burn went through, take it off the standard pool.
offset_serplusand_standard(st) ==
    LET w == ledger_withdraw(st, GetStableCurrencyId, TREASURY, offset_amount(st))
    IN  IF offset_amount(st) # 0 /\ w.ok
        THEN [w.st EXCEPT !.StandardPool = checked_sub(@, offset_amount(st))]
        ELSE st

on_system_standard_saturating(st, amount) ==
    [result |-> "Ok", st |-> [st EXCEPT !.StandardPool = saturating_add(@, amount)]]

on_system_standard(st, amount) ==
    IF checked_add(st.StandardPool, amount) = None
    THEN [result |-> "StandardPoolOverflow", st |-> st]
    ELSE [result |-> "Ok", st |-> [st EXCEPT !.StandardPool = @ + amount]]

issue_standard(st, who, standard) ==
    LET d == ledger_deposit(st, GetStableCurrencyId, who, standard)
    IN  [result |-> IF d.ok THEN "Ok" ELSE "TotalIssuanceOverflow", st |-> d.st]

on_system_serplus_counts_pool(st, amount) ==
    LET r == issue_standard(st, TREASURY, amount)
    IN  [result |-> r.result,
         st |-> IF r.result = "Ok"
                THEN [r.st EXCEPT !.StandardPool = saturating_sub(@, amount)]
                ELSE st]

on_system_serplus(st, amount) == issue_standard(st, TREASURY, amount)

burn_standard(st, who, standard) ==
    LET w == ledger_withdraw(st, GetStableCurrencyId, who, standard)
    IN  [result |-> IF w.ok THEN "Ok" ELSE "BalanceTooLow", st |-> w.st]

\* issue_dexer and burn_dexer act on the stable currency.
issue_dexer(st, who, dexer) ==
    LET d == ledger_deposit(st, GetStableCurrencyId, who, dexer)
    IN  [result |-> IF d.ok THEN "Ok" ELSE "TotalIssuanceOverflow", st |-> d.st]

burn_dexer(st, who, dexer) ==
    LET w == ledger_withdraw(st, GetStableCurrencyId, who, dexer)
    IN  [result |-> IF w.ok THEN "Ok" ELSE "BalanceTooLow", st |-> w.st]

deposit_serplus(st, from, serplus) ==
    LET t == ledger_move(st, GetStableCurrencyId, from, TREASURY, serplus)
    IN  [result |-> IF t.ok THEN "Ok" ELSE "BalanceTooLow", st |-> t.st]

deposit_reserve(st, from, cur, amount) ==
    LET t == ledger_move(st, cur, from, TREASURY, amount)
    IN  [result |-> IF t.ok THEN "Ok" ELSE "BalanceTooLow", st |-> t.st]

withdraw_reserve(st, to, cur, amount) ==
    LET t == ledger_move(st, cur, TREASURY, to, amount)
    IN  [result |-> IF t.ok THEN "Ok" ELSE "BalanceTooLow", st |-> t.st]

\* SerpAuctionHandler::new_serplus_auction (the auction subsystem): counts
\* the amount as serplus in auction.
new_serplus_auction(st, amount) ==
    [st EXCEPT !.SerplusInAuction = saturating_add(@, amount)]

\* SerpAuctionHandler::new_diamond_auction (the auction subsystem): counts
\* the amount as standard in auction.
new_diamond_auction(st, initial_price, standard_amount) ==
    [st EXCEPT !.StandardInAuction = saturating_add(@, standard_amount)]

\* auction_serplus comparing the whole serplus pool with the amount.
auction_serplus_ignores_auctioned(st, origin, amount, rejected) ==
    IF origin # "Root" THEN [result |-> "BadOrigin", st |-> st]
    ELSE IF ~(serpluspool(st) >= amount)
    THEN [result |-> "SerplusPoolNotEnough", st |-> st]
    ELSE IF rejected THEN [result |-> "AuctionError", st |-> st]
    ELSE [result |-> "Ok", st |-> new_serplus_auction(st, amount)]

\* The extrinsic auction_serplus(origin, amount).  `rejected`: the auction
\* subsystem refuses the auction.
auction_serplus(st, origin, amount, rejected) ==
    IF origin # "Root" THEN [result |-> "BadOrigin", st |-> st]
    ELSE IF ~(saturating_sub(serpluspool(st), st.SerplusInAuction) >= amount)
    THEN [result |-> "SerplusPoolNotEnough", st |-> st]
    ELSE IF rejected THEN [result |-> "AuctionError", st |-> st]
    ELSE [result |-> "Ok", st |-> new_serplus_auction(st, amount)]

\* auction_standard taking the auctioned amount off the standard pool.
auction_standard_takes_pool(st, origin, standard_amount, initial_price, rejected) ==
    IF origin # "Root" THEN [result |-> "BadOrigin", st |-> st]
    ELSE IF ~(saturating_sub(st.StandardPool, st.StandardInAuction) >= standard_amount)
    THEN [result |-> "StandardPoolNotEnough", st |-> st]
    ELSE IF rejected THEN [result |-> "AuctionError", st |-> st]
    ELSE [result |-> "Ok",
          st |-> [new_diamond_auction(st, initial_price, standard_amount)
                      EXCEPT !.StandardPool = @ - standard_amount]]

\* The extrinsic auction_standard(origin, standard_amount, initial_price).
auction_standard(st, origin, standard_amount, initial_price, rejected) ==
    IF origin # "Root" THEN [result |-> "BadOrigin", st |-> st]
    ELSE IF ~(saturating_sub(st.StandardPool, st.StandardInAuction) >= standard_amount)
    THEN [result |-> "StandardPoolNotEnough", st |-> st]
    ELSE IF rejected THEN [result |-> "AuctionError", st |-> st]
    ELSE [result |-> "Ok",
          st |-> new_diamond_auction(st, initial_price, standard_amount)]

set_expected_setter_auction_size(st, origin, cur, size) ==
    IF origin # "Root" THEN [result |-> "BadOrigin", st |-> st]
    ELSE [result |-> "Ok", st |-> [st EXCEPT !.ExpectedSetterAuctionSize[cur] = size]]

\* SerpAuctionHandler::new_setter_auction (the auction subsystem): registers
\* the lot and counts its reserve as in auction.
new_setter_auction(st, refund_receiver, cur, amount, target) ==
    [st EXCEPT !.ReserveInAuction[cur] = saturating_add(@, amount),
               !.Lots = Append(@, [amount |-> amount, target |-> target])]

\* The lot count before it is capped: ceil(amount / size) when splitting.
lots_count_uncapped(st, cur, amount, splited) ==
    LET size == st.ExpectedSetterAuctionSize[cur]
    IN  IF ~splited \/ MaxAuctionsCount = 0 \/ size = 0 \/ amount <= size
        THEN 1
        ELSE IF amount % size # 0
             THEN saturating_add(amount \div size, 1)
             ELSE amount \div size

lots_count_floor(st, cur, amount, splited) ==
    LET size == st.ExpectedSetterAuctionSize[cur]
    IN  IF ~splited \/ MaxAuctionsCount = 0 \/ size = 0 \/ amount <= size
        THEN 1
        ELSE Min(amount \div size, MaxAuctionsCount)

\* lots_count without the cap of T::MaxAuctionsCount on a split.
lots_count_no_cap(st, cur, amount, splited) ==
    LET size == st.ExpectedSetterAuctionSize[cur]
    IN  IF ~splited \/ MaxAuctionsCount = 0 \/ size = 0 \/ amount <= size
        THEN 1
        ELSE IF amount % size # 0
             THEN saturating_add(amount \div size, 1)
             ELSE amount \div size

\* The number of lots create_setter_auctions splits `amount` into.
lots_count(st, cur, amount, splited) ==
    LET size == st.ExpectedSetterAuctionSize[cur]
    IN  IF ~splited \/ MaxAuctionsCount = 0 \/ size = 0 \/ amount <= size
        THEN 1
        ELSE Min(IF amount % size # 0
                 THEN saturating_add(amount \div size, 1)
                 ELSE amount \div size,
                 MaxAuctionsCount)

RECURSIVE create_lots_all_average(_, _, _, _, _, _, _, _, _, _)
\* The loop with every lot of the average size, the last one included.
create_lots_all_average(st, cur, refund_receiver, unhandled_reserve_amount, unhandled_target, created_lots, count, average_amount_per_lot, average_target_per_lot, fail_at) ==
    IF unhandled_reserve_amount = 0 THEN [result |-> "Ok", st |-> st]
    ELSE LET created == saturating_add(created_lots, 1)
             lot == [amount |-> average_amount_per_lot,
                     target |-> average_target_per_lot]
         IN  IF created = fail_at
             THEN [result |-> "AuctionError", st |-> st]
             ELSE create_lots_all_average(
                    new_setter_auction(st, refund_receiver, cur, lot.amount, lot.target),
                    cur, refund_receiver,
                    saturating_sub(unhandled_reserve_amount, lot.amount),
                    saturating_sub(unhandled_target, lot.target),
                    created, count, average_amount_per_lot,
                    average_target_per_lot, fail_at)

RECURSIVE create_lots(_, _, _, _, _, _, _, _, _, _)
\* The `while` loop of create_setter_auctions.  `fail_at` is the number of the
\* new_setter_auction call the auction subsystem rejects (0: none); the `?`
\* then returns with the lots registered so far.
create_lots(st, cur, refund_receiver, unhandled_reserve_amount, unhandled_target, created_lots, count, average_amount_per_lot, average_target_per_lot, fail_at) ==
    IF unhandled_reserve_amount = 0 THEN [result |-> "Ok", st |-> st]
    ELSE LET created == saturating_add(created_lots, 1)
             lot == IF created = count
                    THEN [amount |-> unhandled_reserve_amount,
                          target |-> unhandled_target]
                    ELSE [amount |-> average_amount_per_lot,
                          target |-> average_target_per_lot]
         IN  IF created = fail_at
             THEN [result |-> "AuctionError", st |-> st]
             ELSE create_lots(
                    new_setter_auction(st, refund_receiver, cur, lot.amount, lot.target),
                    cur, refund_receiver,
                    saturating_sub(unhandled_reserve_amount, lot.amount),
                    saturating_sub(unhandled_target, lot.target),
                    created, count, average_amount_per_lot,
                    average_target_per_lot, fail_at)

create_setter_auctions_amount_average(st, cur, amount, target, refund_receiver, splited, fail_at) ==
    LET count == lots_count(st, cur, amount, splited)
    IN  IF ~(total_reserves_not_in_auction(st, cur) >= amount)
        THEN [result |-> "ReserveNotEnough", st |-> st]
        ELSE create_lots([st EXCEPT !.Lots = << >>], cur, refund_receiver,
                         amount, target, 0, count,
                         amount \div count, amount \div count, fail_at)

\* create_setter_auctions(currency_id, amount, target, refund_receiver,
\* splited).  Lots holds the lots this call registers.
create_setter_auctions(st, cur, amount, target, refund_receiver, splited, fail_at) ==
    LET count == lots_count(st, cur, amount, splited)
    IN  IF ~(total_reserves_not_in_auction(st, cur) >= amount)
        THEN [result |-> "ReserveNotEnough", st |-> st]
        ELSE create_lots([st EXCEPT !.Lots = << >>], cur, refund_receiver,
                         amount, target, 0, count,
                         amount \div count, target \div count, fail_at)

\* auction_reserve without #[transactional]: what create_setter_auctions
\* registered before its error stays.
auction_reserve_keeps_lots(st, origin, cur, amount, target, splited, fail_at) ==
    IF origin # "Root" THEN [result |-> "BadOrigin", st |-> st]
    ELSE create_setter_auctions(st, cur, amount, target, TREASURY, splited, fail_at)

\* The extrinsic auction_reserve: #[transactional], so an error leaves the
\* storage as it was.
auction_reserve(st, origin, cur, amount, target, splited, fail_at) ==
    LET r == create_setter_auctions(st, cur, amount, target, TREASURY, splited, fail_at)
    IN  IF origin # "Root" THEN [result |-> "BadOrigin", st |-> st]
        ELSE IF r.result # "Ok" THEN [result |-> r.result, st |-> st]
        ELSE r

---------------------------------------------------------------------------
(* Elasticity engine: lib-serml/serp/serp-treasury                         *)

\* Results that are no Balance.
NotCalled == 0 - 2

Panicked == 0 - 3

\* `nume_fraction / deno_fraction - 1` on u128: the division panics when the
\* denominator is zero; the subtraction leaves the range when the quotient is
\* zero, which panics in a build with overflow checks and wraps to
\* Balance::MAX in one without.
supply_change_fractions(nume_fraction, deno_fraction) ==
    IF deno_fraction = 0 THEN {Panicked}
    ELSE IF nume_fraction \div deno_fraction = 0 THEN {Panicked, MaxBalance}
    ELSE {(nume_fraction \div deno_fraction) - 1}

get_supply_change_keeps_quotient(nume_fraction, deno_fraction, supply) ==
    IF deno_fraction = 0 THEN {Panicked}
    ELSE {saturating_mul(nume_fraction \div deno_fraction, supply)}

\* get_supply_change: the results the builds of the function can give.
get_supply_change(nume_fraction, deno_fraction, supply) ==
    {IF fraction = Panicked THEN Panicked ELSE saturating_mul(fraction, supply) :
        fraction \in supply_change_fractions(nume_fraction, deno_fraction)}

\* T::StableCurrencyIds
StableCurrencyIds == {SETR, USDJ}

\* T::GetNativeCurrencyId
GetNativeCurrencyId == DNAR

\* The part of the state the elasticity engine reads and writes.
SerpState == [FreeBalance |-> FreeBalance, TotalIssuance |-> TotalIssuance]

\* What the DEX (an external module) answers to a swap: no quote from
\* get_swap_target_amount, a refused swap, or a swap paying `target`.
DexAnswers ==
    {[kind |-> "NoQuote", target |-> 0], [kind |-> "SwapFails", target |-> 0],
     [kind |-> "Swapped", target |-> 1], [kind |-> "Swapped", target |-> 300]}

\* T::Dex::swap_with_exact_supply on the path [supply_cur, target_cur]: the
\* supply goes to the DEX, the target comes from its pool; all or nothing.
swap_with_exact_supply(st, who, supply_cur, target_cur, supply_amount, dex) ==
    LET paid == ledger_move(st, supply_cur, who, DEX, supply_amount)
        got == ledger_move(paid.st, target_cur, DEX, who, dex.target)
    IN  IF dex.kind = "Swapped" /\ paid.ok /\ got.ok
        THEN [result |-> "Ok", st |-> got.st]
        ELSE [result |-> "SwapFailed", st |-> st]

\* swap_exact_stablecurrency_to_dinar(currency_id, supply_amount, None)
swap_exact_stablecurrency_to_dinar(st, currency_id, supply_amount, dex) ==
    LET d == ledger_deposit(st, currency_id, SERP, supply_amount)
    IN  IF ~d.ok THEN [result |-> "TotalIssuanceOverflow", st |-> st]
        ELSE IF dex.kind = "NoQuote" THEN [result |-> "NoQuote", st |-> d.st]
        ELSE swap_with_exact_supply(d.st, SERP, currency_id, GetNativeCurrencyId,
                                    supply_amount, dex)

issue_propper(st, currency_id, who, propper) ==
    LET d == ledger_deposit(st, currency_id, who, propper)
    IN  [result |-> IF d.ok THEN "Ok" ELSE "TotalIssuanceOverflow", st |-> d.st]

burn_dinar(st, who, dinar) ==
    LET w == ledger_withdraw(st, GetNativeCurrencyId, who, dinar)
    IN  [result |-> IF w.ok THEN "Ok" ELSE "BalanceTooLow", st |-> w.st]

get_buyback_serpup_whole_amount(st, amount, currency_id, dex) ==
    LET swapped == swap_exact_stablecurrency_to_dinar(st, currency_id, amount, dex)
        burnt == burn_dinar(swapped.st, SERP, amount)
    IN  [result |-> "Ok", st |-> burnt.st]

\* T::DirhamCurrencyId
DirhamCurrencyId == DRAM

\* The ledger functions of the engine's impl SerpTreasury.
serp_issue_standard(st, currency_id, who, standard) ==
    LET d == ledger_deposit(st, currency_id, who, standard)
    IN  [result |-> IF d.ok THEN "Ok" ELSE "TotalIssuanceOverflow", st |-> d.st]

serp_burn_standard(st, currency_id, who, standard) ==
    LET w == ledger_withdraw(st, currency_id, who, standard)
    IN  [result |-> IF w.ok THEN "Ok" ELSE "BalanceTooLow", st |-> w.st]

burn_propper(st, currency_id, who, propper) ==
    LET w == ledger_withdraw(st, currency_id, who, propper)
    IN  [result |-> IF w.ok THEN "Ok" ELSE "BalanceTooLow", st |-> w.st]

issue_setter(st, who, setter) ==
    LET d == ledger_deposit(st, SETR, who, setter)
    IN  [result |-> IF d.ok THEN "Ok" ELSE "TotalIssuanceOverflow", st |-> d.st]

burn_setter(st, who, setter) ==
    LET w == ledger_withdraw(st, SETR, who, setter)
    IN  [result |-> IF w.ok THEN "Ok" ELSE "BalanceTooLow", st |-> w.st]

issue_dinar(st, who, dinar) ==
    LET d == ledger_deposit(st, GetNativeCurrencyId, who, dinar)
    IN  [result |-> IF d.ok THEN "Ok" ELSE "TotalIssuanceOverflow", st |-> d.st]

serp_issue_dexer(st, who, dexer) ==
    LET d == ledger_deposit(st, DirhamCurrencyId, who, dexer)
    IN  [result |-> IF d.ok THEN "Ok" ELSE "TotalIssuanceOverflow", st |-> d.st]

serp_burn_dexer(st, who, dexer) ==
    LET w == ledger_withdraw(st, DirhamCurrencyId, who, dexer)
    IN  [result |-> IF w.ok THEN "Ok" ELSE "BalanceTooLow", st |-> w.st]

serp_deposit_serplus(st, currency_id, from, serplus) ==
    LET t == ledger_move(st, currency_id, from, SERP, serplus)
    IN  [result |-> IF t.ok THEN "Ok" ELSE "BalanceTooLow", st |-> t.st]

deposit_setter(st, from, amount) ==
    LET t == ledger_move(st, SETR, from, SERP, amount)
    IN  [result |-> IF t.ok THEN "Ok" ELSE "BalanceTooLow", st |-> t.st]

withdraw_dinar(st, to, amount) ==
    LET t == ledger_move(st, GetNativeCurrencyId, SERP, to, amount)
    IN  [result |-> IF t.ok THEN "Ok" ELSE "BalanceTooLow", st |-> t.st]

\* get_buyback_serpup: 30%; the results of the swap and of the burn are
\* dropped.
get_buyback_serpup(st, amount, currency_id, dex) ==
    LET serping_amount == saturating_mul(3, amount \div 10)
        swapped == swap_exact_stablecurrency_to_dinar(st, currency_id,
                                                      serping_amount, dex)
        burnt == burn_dinar(swapped.st, SERP, serping_amount)
    IN  [result |-> "Ok", st |-> burnt.st]

\* get_settpay_serpup: 60%; the result of the mint is dropped.
get_settpay_serpup(st, amount, currency_id) ==
    LET serping_amount == saturating_mul(6, amount \div 10)
    IN  [result |-> "Ok",
         st |-> issue_propper(st, currency_id, SETTPAY, serping_amount).st]

\* get_charity_fund_serpup: 10%; the result of the mint is dropped.
get_charity_fund_serpup(st, amount, currency_id) ==
    LET serping_amount == amount \div 10
    IN  [result |-> "Ok",
         st |-> issue_propper(st, currency_id, CHARITY, serping_amount).st]

on_serpup_no_amount_check(st, currency_id, amount, dex) ==
    IF currency_id \notin StableCurrencyIds
    THEN [result |-> "InvalidCurrencyType", st |-> st]
    ELSE LET buyback == get_buyback_serpup(st, amount, currency_id, dex)
             settpay == get_settpay_serpup(buyback.st, amount, currency_id)
             charity == get_charity_fund_serpup(settpay.st, amount, currency_id)
         IN  [result |-> "Ok", st |-> charity.st]

on_serpup(st, currency_id, amount, dex) ==
    IF currency_id \notin StableCurrencyIds
    THEN [result |-> "InvalidCurrencyType", st |-> st]
    ELSE IF amount = 0 THEN [result |-> "InvalidAmount", st |-> st]
    ELSE LET buyback == get_buyback_serpup(st, amount, currency_id, dex)
             settpay == get_settpay_serpup(buyback.st, amount, currency_id)
             charity == get_charity_fund_serpup(settpay.st, amount, currency_id)
         IN  [result |-> "Ok", st |-> charity.st]

\* The events on_serpup deposits: one SerpUpDelivery by each leg, then
\* SerpUp; none when a check rejects the call.
on_serpup_events(st, currency_id, amount, dex) ==
    IF on_serpup(st, currency_id, amount, dex).result # "Ok" THEN << >>
    ELSE <<[event |-> "SerpUpDelivery", amount |-> amount, currency |-> currency_id],
           [event |-> "SerpUpDelivery", amount |-> amount, currency |-> currency_id],
           [event |-> "SerpUpDelivery", amount |-> amount, currency |-> currency_id],
           [event |-> "SerpUp", amount |-> amount, currency |-> currency_id]>>

\* T::SetterCurrencyId
SetterCurrencyId == SETR

\* T::GetSettUSDCurrencyId
GetSettUSDCurrencyId == USDJ

\* get_minimum_supply: T::GetStableCurrencyMinimumSupply
get_minimum_supply(currency_id) == GetStableCurrencyMinimumSupply[currency_id]

\* What the DEX answers to an exact-target swap: no quote from
\* get_swap_supply_amount, a refused swap, or a swap taking `supply` (the
\* quote is `supply` too).
DexSupplyAnswers ==
    {[kind |-> "NoQuote", supply |-> 0], [kind |-> "SwapFails", supply |-> 1],
     [kind |-> "Swapped", supply |-> 1]}

\* T::Dex::swap_with_exact_target on the path [supply_cur, target_cur]: the
\* target comes from the DEX's pool, the supply goes to it and may not
\* exceed max_supply_amount; all or nothing.
swap_with_exact_target(st, who, supply_cur, target_cur, target_amount, max_supply_amount, dexq) ==
    LET paid == ledger_move(st, supply_cur, who, DEX, dexq.supply)
        got == ledger_move(paid.st, target_cur, DEX, who, target_amount)
    IN  IF /\ dexq.kind = "Swapped"
           /\ dexq.supply <= max_supply_amount
           /\ paid.ok
           /\ got.ok
        THEN [result |-> "Ok", st |-> got.st]
        ELSE [result |-> "SwapFailed", st |-> st]

\* The liquidity the DEX holds for the two currencies of a path.
pool_reserves(st, path) ==
    <<st.FreeBalance[<<path[1], DEX>>], st.FreeBalance[<<path[2], DEX>>]>>

\* One call of the engine to the DEX: what was called, with which path,
\* target and limit, what the DEX answered to a quote (None: no quote), the
\* max_supply_amount passed to a swap, and the reserves of the path's pool
\* when the call was made.
DexCall(call, path, target_amount, supply, st) ==
    [call |-> call, path |-> path, target |-> target_amount,
     limit |-> "MaxSlippageSwapWithDEX", supply |-> supply,
     reserves |-> pool_reserves(st, path)]

\* The same body as swap_to_exact, passing the target amount as the
\* max_supply_amount of the swap.
swap_to_exact_max_is_target(st, supply_cur, target_cur, target_amount, dexq) ==
    LET swap_path == <<supply_cur, target_cur>>
        max_supply_amount == dexq.supply
        quote == DexCall("get_swap_supply_amount", swap_path, target_amount,
                         IF dexq.kind = "NoQuote" THEN None ELSE max_supply_amount,
                         st)
        d == ledger_deposit(st, supply_cur, SERP, max_supply_amount)
        swap == swap_with_exact_target(d.st, SERP, supply_cur, target_cur,
                                       target_amount, target_amount, dexq)
    IN  IF dexq.kind = "NoQuote"
        THEN [result |-> "NoQuote", st |-> st, dex_calls |-> <<quote>>]
        ELSE IF ~d.ok
        THEN [result |-> "TotalIssuanceOverflow", st |-> st, dex_calls |-> <<quote>>]
        ELSE [result |-> swap.result, st |-> swap.st,
              dex_calls |-> <<quote, DexCall("swap_with_exact_target", swap_path,
                                             target_amount, target_amount, d.st)>>]

\* The body shared by swap_dinar_to_exact_setter and
\* swap_setter_to_exact_settcurrency with the default path: quote, mint the
\* quoted supply to the engine's account, swap.  dex_calls lists the calls
\* made to the DEX.
swap_to_exact(st, supply_cur, target_cur, target_amount, dexq) ==
    LET swap_path == <<supply_cur, target_cur>>
        max_supply_amount == dexq.supply
        quote == DexCall("get_swap_supply_amount", swap_path, target_amount,
                         IF dexq.kind = "NoQuote" THEN None ELSE max_supply_amount,
                         st)
        d == ledger_deposit(st, supply_cur, SERP, max_supply_amount)
        swap == swap_with_exact_target(d.st, SERP, supply_cur, target_cur,
                                       target_amount, max_supply_amount, dexq)
    IN  IF dexq.kind = "NoQuote"
        THEN [result |-> "NoQuote", st |-> st, dex_calls |-> <<quote>>]
        ELSE IF ~d.ok
        THEN [result |-> "TotalIssuanceOverflow", st |-> st, dex_calls |-> <<quote>>]
        ELSE [result |-> swap.result, st |-> swap.st,
              dex_calls |-> <<quote, DexCall("swap_with_exact_target", swap_path,
                                             target_amount, max_supply_amount, d.st)>>]

swap_dinar_to_exact_setter(st, target_amount, dexq) ==
    swap_to_exact(st, GetNativeCurrencyId, SetterCurrencyId, target_amount, dexq)

swap_setter_to_exact_settcurrency(st, currency_id, target_amount, dexq) ==
    swap_to_exact(st, SetterCurrencyId, currency_id, target_amount, dexq)

\* maybe_path: Option<&[CurrencyId]>.
NoPath == [some |-> FALSE, path |-> << >>]

SomePath(path) == [some |-> TRUE, path |-> path]

\* The `ensure!` on an explicit path: at least two currencies, from
\* `source` to `target`.
valid_swap_path(path, source, target) ==
    /\ Len(path) >= 2
    /\ path[1] = source
    /\ path[Len(path)] = target

\* The body shared by swap_exact_dinar_to_setter and
\* swap_exact_stablecurrency_to_dinar: mint the supply to the engine's
\* account, settle the path, quote, swap.  An error leaves through `?` or
\* `ensure!`, with what was done before it.
swap_exact_supply(st, supply_cur, target_cur, supply_amount, maybe_path, dex) ==
    LET d == ledger_deposit(st, supply_cur, SERP, supply_amount)
        swap_path == IF maybe_path.some THEN maybe_path.path
                     ELSE <<supply_cur, target_cur>>
        swap == swap_with_exact_supply(d.st, SERP, swap_path[1],
                                       swap_path[Len(swap_path)],
                                       supply_amount, dex)
        quote == DexCall("get_swap_target_amount", swap_path,
                         IF dex.kind = "NoQuote" THEN None ELSE dex.target,
                         supply_amount, d.st)
    IN  IF ~d.ok
        THEN [result |-> "TotalIssuanceOverflow", st |-> st, dex_calls |-> << >>]
        ELSE IF maybe_path.some /\ ~valid_swap_path(maybe_path.path, supply_cur, target_cur)
        THEN [result |-> "InvalidSwapPath", st |-> d.st, dex_calls |-> << >>]
        ELSE IF dex.kind = "NoQuote"
        THEN [result |-> "NoQuote", st |-> d.st, dex_calls |-> <<quote>>]
        ELSE [result |-> swap.result, st |-> swap.st,
              dex_calls |-> <<quote, DexCall("swap_with_exact_supply", swap_path,
                                             dex.target, supply_amount, d.st)>>]

\* swap_exact_dinar_to_setter(supply_amount, maybe_path)
swap_exact_dinar_to_setter(st, supply_amount, maybe_path, dex) ==
    swap_exact_supply(st, GetNativeCurrencyId, SetterCurrencyId, supply_amount,
                      maybe_path, dex)

\* swap_exact_stablecurrency_to_dinar(currency_id, supply_amount, maybe_path)
swap_exact_stablecurrency_to_dinar_path(st, currency_id, supply_amount, maybe_path, dex) ==
    swap_exact_supply(st, currency_id, GetNativeCurrencyId, supply_amount,
                      maybe_path, dex)

\* The body shared by swap_dinar_to_exact_setter and
\* swap_setter_to_exact_settcurrency: settle the path, quote, mint the
\* quoted supply to the engine's account, swap.
swap_exact_target(st, supply_cur, target_cur, target_amount, maybe_path, dexq) ==
    LET swap_path == IF maybe_path.some THEN maybe_path.path
                     ELSE <<supply_cur, target_cur>>
        max_supply_amount == dexq.supply
        quote == DexCall("get_swap_supply_amount", swap_path, target_amount,
                         IF dexq.kind = "NoQuote" THEN None ELSE max_supply_amount,
                         st)
        d == ledger_deposit(st, supply_cur, SERP, max_supply_amount)
        swap == swap_with_exact_target(d.st, SERP, swap_path[1],
                                       swap_path[Len(swap_path)],
                                       target_amount, max_supply_amount, dexq)
    IN  IF maybe_path.some /\ ~valid_swap_path(maybe_path.path, supply_cur, target_cur)
        THEN [result |-> "InvalidSwapPath", st |-> st, dex_calls |-> << >>]
        ELSE IF dexq.kind = "NoQuote"
        THEN [result |-> "NoQuote", st |-> st, dex_calls |-> <<quote>>]
        ELSE IF ~d.ok
        THEN [result |-> "TotalIssuanceOverflow", st |-> st, dex_calls |-> <<quote>>]
        ELSE [result |-> swap.result, st |-> swap.st,
              dex_calls |-> <<quote, DexCall("swap_with_exact_target", swap_path,
                                             target_amount, max_supply_amount, d.st)>>]

\* swap_dinar_to_exact_setter(target_amount, maybe_path)
swap_dinar_to_exact_setter_path(st, target_amount, maybe_path, dexq) ==
    swap_exact_target(st, GetNativeCurrencyId, SetterCurrencyId, target_amount,
                      maybe_path, dexq)

\* swap_setter_to_exact_settcurrency(currency_id, target_amount, maybe_path)
swap_setter_to_exact_settcurrency_path(st, currency_id, target_amount, maybe_path, dexq) ==
    swap_exact_target(st, SetterCurrencyId, currency_id, target_amount,
                      maybe_path, dexq)

\* on_serpdown with the two swaps exchanged between the branches.
on_serpdown_swaps_exchanged(st, currency_id, amount, dexq) ==
    LET setter == swap_dinar_to_exact_setter(st, amount, dexq)
        settcurrency == swap_setter_to_exact_settcurrency(st, currency_id, amount, dexq)
    IN  IF currency_id \notin StableCurrencyIds
        THEN [result |-> "InvalidCurrencyType", st |-> st, dex_calls |-> << >>]
        ELSE IF ~(saturating_sub(st.TotalIssuance[currency_id], amount)
                     >= get_minimum_supply(currency_id))
        THEN [result |-> "MinSupplyReached", st |-> st, dex_calls |-> << >>]
        ELSE IF currency_id # SetterCurrencyId
        THEN [result |-> "Ok", st |-> setter.st, dex_calls |-> setter.dex_calls]
        ELSE [result |-> "Ok", st |-> settcurrency.st,
              dex_calls |-> settcurrency.dex_calls]

\* on_serpdown: the result of the swap is dropped.  dex_calls lists the
\* calls made to the DEX.
on_serpdown(st, currency_id, amount, dexq) ==
    LET setter == swap_dinar_to_exact_setter(st, amount, dexq)
        settcurrency == swap_setter_to_exact_settcurrency(st, currency_id, amount, dexq)
    IN  IF currency_id \notin StableCurrencyIds
        THEN [result |-> "InvalidCurrencyType", st |-> st, dex_calls |-> << >>]
        ELSE IF ~(saturating_sub(st.TotalIssuance[currency_id], amount)
                     >= get_minimum_supply(currency_id))
        THEN [result |-> "MinSupplyReached", st |-> st, dex_calls |-> << >>]
        ELSE IF currency_id = SetterCurrencyId
        THEN [result |-> "Ok", st |-> setter.st, dex_calls |-> setter.dex_calls]
        ELSE [result |-> "Ok", st |-> settcurrency.st,
              dex_calls |-> settcurrency.dex_calls]

on_serpdown_events(st, currency_id, amount, dexq) ==
    IF on_serpdown(st, currency_id, amount, dexq).result # "Ok" THEN << >>
    ELSE <<[event |-> "SerpDown", amount |-> amount, currency |-> currency_id]>>

\* What one elasticity pass leaves behind: its result, the ledger, the
\* SerpUp / SerpDown calls it made and the events it deposited.
PassOutcome(result, st, invoked, events) ==
    [result |-> result, st |-> st, invoked |-> invoked, events |-> events]

SerpTesEvent(currency_id) ==
    [event |-> "SerpTes", amount |-> 0, currency |-> currency_id]

\* The arm `market_price_into > peg_price_into`, given what
\* get_supply_change returned.
serp_tes_expand(st, currency_id, expand_by, dex) ==
    LET up == on_serpup(st, currency_id, expand_by, dex)
        call == [op |-> "on_serpup", currency |-> currency_id, amount |-> expand_by]
        events == on_serpup_events(st, currency_id, expand_by, dex)
    IN  IF expand_by = Panicked THEN PassOutcome("Panicked", st, << >>, << >>)
        ELSE IF up.result # "Ok" THEN PassOutcome(up.result, up.st, <<call>>, events)
        ELSE PassOutcome("Ok", up.st, <<call>>,
                         Append(events, SerpTesEvent(currency_id)))

\* The arm `market_price_into < peg_price_into`.
serp_tes_contract(st, currency_id, contract_by, dexq) ==
    LET down == on_serpdown(st, currency_id, contract_by, dexq)
        call == [op |-> "on_serpdown", currency |-> currency_id, amount |-> contract_by]
        events == on_serpdown_events(st, currency_id, contract_by, dexq)
    IN  IF contract_by = Panicked THEN PassOutcome("Panicked", st, << >>, << >>)
        ELSE IF down.result # "Ok" THEN PassOutcome(down.result, down.st, <<call>>, events)
        ELSE PassOutcome("Ok", down.st, <<call>>,
                         Append(events, SerpTesEvent(currency_id)))

serp_tes_always_expands(st, currency_id, market_price, peg_price, dex, dexq) ==
    LET total_supply == st.TotalIssuance[currency_id]
    IN  IF market_price = None \/ peg_price = None
        THEN {PassOutcome("InvalidFeedPrice", st, << >>, << >>)}
        ELSE IF market_price > peg_price
        THEN {serp_tes_expand(st, currency_id, expand_by, dex) :
                expand_by \in get_supply_change(market_price, peg_price, total_supply)}
        ELSE IF market_price < peg_price
        THEN {serp_tes_expand(st, currency_id, expand_by, dex) :
                expand_by \in get_supply_change(peg_price, market_price, total_supply)}
        ELSE {PassOutcome("Ok", st, << >>, <<SerpTesEvent(currency_id)>>)}

\* The body shared by setter_on_tes and usdj_on_tes: the outcomes of the
\* pass of one currency.  A price that the oracle does not have is None; the
\* pass then ends with InvalidFeedPrice.
serp_tes(st, currency_id, market_price, peg_price, dex, dexq) ==
    LET total_supply == st.TotalIssuance[currency_id]
    IN  IF market_price = None \/ peg_price = None
        THEN {PassOutcome("InvalidFeedPrice", st, << >>, << >>)}
        ELSE IF market_price > peg_price
        THEN {serp_tes_expand(st, currency_id, expand_by, dex) :
                expand_by \in get_supply_change(market_price, peg_price, total_supply)}
        ELSE IF market_price < peg_price
        THEN {serp_tes_contract(st, currency_id, contract_by, dexq) :
                contract_by \in get_supply_change(peg_price, market_price, total_supply)}
        ELSE {PassOutcome("Ok", st, << >>, <<SerpTesEvent(currency_id)>>)}

setter_on_tes(st, market_price, peg_price, dex, dexq) ==
    serp_tes(st, SetterCurrencyId, market_price, peg_price, dex, dexq)

usdj_on_tes(st, market_price, peg_price, dex, dexq) ==
    serp_tes(st, GetSettUSDCurrencyId, market_price, peg_price, dex, dexq)

\* One pass as the log of a cycle keeps it.
PassRecord(currency_id, price, outcome) ==
    [currency |-> currency_id, market |-> price.market, peg |-> price.peg,
     result |-> outcome.result, invoked |-> outcome.invoked,
     events |-> outcome.events]

on_initialize_rest_stops_on_error(st, first, feed, dexs) ==
    IF first.result # "Ok"
    THEN {[weight |-> 1, result |-> first.result,
           st |-> IF first.result = "Panicked" THEN st ELSE first.st,
           passes |-> <<PassRecord(SetterCurrencyId, feed[SetterCurrencyId], first)>>]}
    ELSE {[weight |-> 2,
           result |-> IF second.result = "Panicked" THEN "Panicked" ELSE "Ok",
           st |-> IF second.result = "Panicked" THEN st ELSE second.st,
           passes |-> <<PassRecord(SetterCurrencyId, feed[SetterCurrencyId], first),
                        PassRecord(GetSettUSDCurrencyId, feed[GetSettUSDCurrencyId], second)>>] :
            second \in usdj_on_tes(first.st, feed[GetSettUSDCurrencyId].market,
                                   feed[GetSettUSDCurrencyId].peg,
                                   dexs[2].up, dexs[2].down)}

\* The second half of a triggered on_initialize, after setter_on_tes gave
\* `first`.  A panic ends the hook: the block is not built and the storage
\* stays as it was.
on_initialize_rest(st, first, feed, dexs) ==
    IF first.result = "Panicked"
    THEN {[weight |-> 0, result |-> "Panicked", st |-> st,
           passes |-> <<PassRecord(SetterCurrencyId, feed[SetterCurrencyId], first)>>]}
    ELSE {[weight |-> 2,
           result |-> IF second.result = "Panicked" THEN "Panicked" ELSE "Ok",
           st |-> IF second.result = "Panicked" THEN st ELSE second.st,
           passes |-> <<PassRecord(SetterCurrencyId, feed[SetterCurrencyId], first),
                        PassRecord(GetSettUSDCurrencyId, feed[GetSettUSDCurrencyId], second)>>] :
            second \in usdj_on_tes(first.st, feed[GetSettUSDCurrencyId].market,
                                   feed[GetSettUSDCurrencyId].peg,
                                   dexs[2].up, dexs[2].down)}

\* on_initialize running the passes in every block.
on_initialize_every_block(st, now, feed, dexs) ==
    UNION {on_initialize_rest(st, first, feed, dexs) :
             first \in setter_on_tes(st, feed[SetterCurrencyId].market,
                                     feed[SetterCurrencyId].peg,
                                     dexs[1].up, dexs[1].down)}

\* Hooks on_initialize(now): the outcomes of the hook.  `feed` gives the
\* oracle's prices, `dexs` the DEX's answers to the swaps of the two passes.
on_initialize(st, now, feed, dexs) ==
    IF now % SerpTesSchedule = 0
    THEN UNION {on_initialize_rest(st, first, feed, dexs) :
                  first \in setter_on_tes(st, feed[SetterCurrencyId].market,
                                          feed[SetterCurrencyId].peg,
                                          dexs[1].up, dexs[1].down)}
    ELSE {[weight |-> 0, result |-> "Ok", st |-> st, passes |-> << >>]}

---------------------------------------------------------------------------
(* Initial state and actions of the position ledger                        *)

\* Genesis balances: `holdings` gives the non-zero free balances; the total
\* issuance of a currency is the sum of its balances.
RECURSIVE SumBalances(_, _, _)
SumBalances(fb, cur, S) ==
    IF S = {} THEN 0
    ELSE LET a == CHOOSE x \in S : TRUE
         IN  fb[<<cur, a>>] + SumBalances(fb, cur, S \ {a})

GenesisLedger(holdings) ==
    /\ FreeBalance = [k \in LedgerCurrencies \X LedgerAccounts |->
                        IF k \in DOMAIN holdings THEN holdings[k] ELSE 0]
    /\ TotalIssuance = [c \in LedgerCurrencies |->
                          SumBalances(FreeBalance, c, LedgerAccounts)]

\* The adjustments adjust_position is called with: the four calls of the
\* tests, adjustments of one field only, a repayment of what was issued, and
\* an issue of the largest Amount.
Adjustments ==
    {<<200, 200>>, <<0 - 100, 0 - 100>>, <<500, 300>>, <<0 - 500, 0>>,
     <<500, 0>>, <<0, 0 - 300>>, <<0, MaxAmount>>, <<0, 0>>}

\* Every delta a call is tried with.
DeltaAmounts ==
    Amounts \cup {a[1] : a \in Adjustments} \cup {a[2] : a \in Adjustments}

\* The ways the runtime rounds the half of an odd adjustment.
Conversions == {"half_down", "half_up"}

\* The records of the position ledger before any call.
GenesisPositionRecords ==
    /\ Positions = << >>
    /\ TotalPositions = [c \in PosCurrencies |-> ZeroPosition]
    /\ consumers0 = Consumers
    /\ adjust_calls = 0
    /\ pos_last = [op |-> "none", result |-> "none", from |-> "-", to |-> "-"]
    /\ applied = [a \in Accounts |-> ZeroPosition]
    /\ transferred = FALSE

\* The position ledger before any call.
GenesisPositions ==
    /\ GenesisPositionRecords
    /\ conversion = "half_down"

\* The treasury before any call.
GenesisTreasury ==
    /\ StandardPool = 0
    /\ ExpectedSetterAuctionSize = [c \in LedgerCurrencies |-> 0]
    /\ ReserveInAuction = [c \in LedgerCurrencies |-> 0]
    /\ Lots = << >>
    /\ SerplusInAuction = 0
    /\ StandardInAuction = 0
    /\ t_last = [op |-> "none", result |-> "none"]
    /\ last_offset = 0
    /\ trait_calls = 0

\* No block begun yet.
GenesisTes ==
    /\ block_number = 0
    /\ tes_last = [now |-> 0, weight |-> 0, result |-> "none", passes |-> << >>]
    /\ serp_events = << >>

\* The elasticity engine before any call.
GenesisSerp ==
    /\ serp_last = [op |-> "none", result |-> "none", currency |-> "-", amount |-> 0]
    /\ serp_calls = 0
    /\ supply_change_args = <<0, 0, 0>>
    /\ supply_change_result = NotCalled
    /\ dex_calls = << >>
    /\ GetStableCurrencyMinimumSupply = [c \in StableCurrencyIds |-> MinimumSupply]
    /\ GenesisTes

\* ExtBuilder::default(): each account is endowed with 1000 of the reserve
\* currency and 1000 of the standard currency.
EndowedBalance == 1000

InitPositions ==
    /\ subsystem = "positions"
    /\ Consumers \in [Accounts -> 0..MaxOtherRefs]
    /\ GenesisPositionRecords
    /\ conversion \in Conversions
    /\ GenesisLedger([k \in {SETR, EURJ} \X Accounts |-> EndowedBalance])
    /\ GenesisTreasury
    /\ GenesisSerp

\* Commit the outcome r of a position-ledger call.
CommitPos(r) ==
    /\ Positions' = r.st.Positions
    /\ TotalPositions' = r.st.TotalPositions
    /\ Consumers' = r.st.Consumers
    /\ FreeBalance' = r.st.FreeBalance
    /\ TotalIssuance' = r.st.TotalIssuance
    /\ UNCHANGED <<consumers0, conversion, treasury_vars, serp_vars, tes_vars,
                   subsystem>>

\* The history of applied deltas: kept while no transfer has happened.
Track(r, who, rd, sd) ==
    /\ applied' = IF r.result = "Ok" /\ ~transferred
                  THEN [applied EXCEPT ![who] =
                          [reserve |-> @.reserve + rd, standard |-> @.standard + sd]]
                  ELSE applied
    /\ UNCHANGED transferred

UpdatePosition ==
    \E who \in Accounts, cur \in PosCurrencies, rd \in Amounts, sd \in Amounts :
        LET r == update_position(PosState, who, cur, rd, sd)
        IN  /\ CommitPos(r)
            /\ Track(r, who, rd, sd)
            /\ pos_last' = [op |-> "update_position", result |-> r.result,
                             from |-> "-", to |-> "-"]
            /\ UNCHANGED adjust_calls

\* The accounts that call adjust_position.
AdjustAccounts == {ALICE}

AdjustPosition ==
    \E who \in AdjustAccounts, cur \in PosCurrencies, a \in Adjustments :
        LET rd == a[1]
            sd == a[2]
            r  == adjust_position(PosState, who, cur, rd, sd)
        IN  /\ adjust_calls < MaxAdjustCalls
            /\ adjust_calls' = adjust_calls + 1
            /\ CommitPos(r)
            /\ Track(r, who, rd, sd)
            /\ pos_last' = [op |-> "adjust_position", result |-> r.result,
                             from |-> "-", to |-> "-"]

TransferPosition ==
    \E from \in Accounts, to \in Accounts, cur \in PosCurrencies :
        LET r == transfer_position(PosState, from, to, cur)
        IN  /\ CommitPos(r)
            /\ transferred' = (transferred \/ r.result = "Ok")
            /\ applied' = IF r.result = "Ok"
                          THEN [a \in Accounts |-> ZeroPosition]
                          ELSE applied
            /\ pos_last' = [op |-> "transfer_position", result |-> r.result,
                             from |-> from, to |-> to]
            /\ UNCHANGED adjust_calls

NextPositions == UpdatePosition \/ AdjustPosition \/ TransferPosition

SpecPositions == InitPositions /\ [][NextPositions]_vars

---------------------------------------------------------------------------
(* Initial states and actions of the treasury                              *)

\* The amounts the pool operations are tried with.
PoolAmounts == {0, MaxAmount, 2 * MaxAmount}

\* The reserve amounts, targets and expected lot sizes auctions are tried with.
ReserveAmounts == {0, 25, 100}

TargetAmounts == {0, 7, 25}

LotSizes == {0, 1, 10}

Origins == {"Root", "Signed"}

\* The reserve currency of the auctions.
AuctionCurrencies == {SETR}

\* The functions of SerpTreasuryExtended a behaviour calls directly.
TraitCalls ==
    {"create_setter_auctions", "swap_exact_reserve_in_auction_to_stable",
     "swap_reserve_not_in_auction_with_exact_stable"}

\* Commit the outcome r of the treasury call `op`.
CommitTreasury(op, r) ==
    /\ op \in TraitCalls => trait_calls < MaxTraitCalls
    /\ StandardPool' = r.st.StandardPool
    /\ FreeBalance' = r.st.FreeBalance
    /\ TotalIssuance' = r.st.TotalIssuance
    /\ ExpectedSetterAuctionSize' = r.st.ExpectedSetterAuctionSize
    /\ ReserveInAuction' = r.st.ReserveInAuction
    /\ Lots' = r.st.Lots
    /\ SerplusInAuction' = r.st.SerplusInAuction
    /\ StandardInAuction' = r.st.StandardInAuction
    /\ t_last' = [op |-> op, result |-> r.result]
    /\ last_offset' = IF op = "on_finalize" THEN offset_amount(TreasuryState) ELSE 0
    /\ trait_calls' = IF op \in TraitCalls THEN trait_calls + 1 ELSE trait_calls
    /\ UNCHANGED <<pos_vars, serp_vars, tes_vars, subsystem>>

InitTreasury ==
    /\ subsystem = "treasury"
    /\ Consumers = [a \in Accounts |-> 0]
    /\ GenesisPositions
    /\ GenesisLedger(<< >>)
    /\ GenesisTreasury
    /\ GenesisSerp

\* Hooks on_finalize: offset the two pools at the end of every block.
OnFinalize ==
    /\ ~offset_panics(TreasuryState)
    /\ CommitTreasury("on_finalize",
                      [result |-> "Ok", st |-> offset_serplusand_standard(TreasuryState)])

OnSystemStandard ==
    \E amount \in PoolAmounts :
        CommitTreasury("on_system_standard", on_system_standard(TreasuryState, amount))

OnSystemSerplus ==
    \E amount \in PoolAmounts :
        CommitTreasury("on_system_serplus", on_system_serplus(TreasuryState, amount))

IssueStandard ==
    \E amount \in PoolAmounts :
        CommitTreasury("issue_standard", issue_standard(TreasuryState, ALICE, amount))

BurnStandard ==
    \E amount \in PoolAmounts :
        CommitTreasury("burn_standard", burn_standard(TreasuryState, ALICE, amount))

IssueDexer ==
    \E amount \in PoolAmounts :
        CommitTreasury("issue_dexer", issue_dexer(TreasuryState, ALICE, amount))

BurnDexer ==
    \E amount \in PoolAmounts :
        CommitTreasury("burn_dexer", burn_dexer(TreasuryState, ALICE, amount))

DepositSerplus ==
    \E amount \in PoolAmounts :
        CommitTreasury("deposit_serplus", deposit_serplus(TreasuryState, ALICE, amount))

\* The initial prices auction_standard is tried with.
InitialPrices == {1}

AuctionSerplus ==
    \E origin \in Origins, amount \in PoolAmounts, rejected \in BOOLEAN :
        CommitTreasury("auction_serplus",
                       auction_serplus(TreasuryState, origin, amount, rejected))

AuctionStandard ==
    \E origin \in Origins, standard_amount \in PoolAmounts,
       initial_price \in InitialPrices, rejected \in BOOLEAN :
        CommitTreasury("auction_standard",
                       auction_standard(TreasuryState, origin, standard_amount,
                                        initial_price, rejected))

\* The auction subsystem closes the serplus and standard auctions: nothing
\* is in auction any more.
PoolAuctionsEnd ==
    /\ SerplusInAuction # 0 \/ StandardInAuction # 0
    /\ CommitTreasury("auctions_end",
                      [result |-> "Ok",
                       st |-> [TreasuryState EXCEPT !.SerplusInAuction = 0,
                                                    !.StandardInAuction = 0]])

NextTreasury ==
    \/ OnFinalize
    \/ OnSystemStandard
    \/ OnSystemSerplus
    \/ IssueStandard
    \/ BurnStandard
    \/ IssueDexer
    \/ BurnDexer
    \/ DepositSerplus
    \/ AuctionSerplus
    \/ AuctionStandard
    \/ PoolAuctionsEnd

SpecTreasury == InitTreasury /\ [][NextTreasury]_vars

\* swap_exact_reserve_in_auction_to_stable(currency_id, supply_amount,
\* min_target_amount, price_impact_limit): the DEX refuses a swap that pays
\* less than min_target_amount.
swap_exact_reserve_in_auction_to_stable(st, currency_id, supply_amount, min_target_amount, dex) ==
    IF ~(/\ total_reserves(st, currency_id) >= supply_amount
         /\ st.ReserveInAuction[currency_id] >= supply_amount)
    THEN [result |-> "ReserveNotEnough", st |-> st]
    ELSE IF dex.kind = "Swapped" /\ dex.target < min_target_amount
    THEN [result |-> "SwapFailed", st |-> st]
    ELSE swap_with_exact_supply(st, TREASURY, currency_id, GetStableCurrencyId,
                                supply_amount, dex)

\* swap_reserve_not_in_auction_with_exact_stable(currency_id, target_amount,
\* max_supply_amount, price_impact_limit)
swap_reserve_not_in_auction_with_exact_stable(st, currency_id, target_amount, max_supply_amount, dexq) ==
    IF ~(total_reserves_not_in_auction(st, currency_id) >= max_supply_amount)
    THEN [result |-> "ReserveNotEnough", st |-> st]
    ELSE swap_with_exact_target(st, TREASURY, currency_id, GetStableCurrencyId,
                                target_amount, max_supply_amount, dexq)

\* What the DEX answers to the swaps of the treasury's reserve, the least
\* stable amounts asked for and the exact stable amounts bought.
ReserveDexAnswers ==
    {[kind |-> "SwapFails", target |-> 0], [kind |-> "Swapped", target |-> 50]}

ReserveDexSupplyAnswers ==
    {[kind |-> "SwapFails", supply |-> 0], [kind |-> "Swapped", supply |-> 25]}

MinTargetAmounts == {1, 100}

StableTargetAmounts == {50}

\* CAROL holds the reserve; the DEX holds the stable currency of one swap.
InitAuctions ==
    /\ subsystem = "auctions"
    /\ Consumers = [a \in Accounts |-> 0]
    /\ GenesisPositions
    /\ GenesisLedger([k \in {<<SETR, CAROL>>, <<USDJ, DEX>>} |->
                         IF k[1] = SETR THEN 100 ELSE 50])
    /\ GenesisTreasury
    /\ GenesisSerp

DepositReserve ==
    \E cur \in AuctionCurrencies, amount \in ReserveAmounts :
        CommitTreasury("deposit_reserve", deposit_reserve(TreasuryState, CAROL, cur, amount))

WithdrawReserve ==
    \E cur \in AuctionCurrencies, amount \in ReserveAmounts :
        CommitTreasury("withdraw_reserve", withdraw_reserve(TreasuryState, CAROL, cur, amount))

SetExpectedSetterAuctionSize ==
    \E origin \in Origins, cur \in AuctionCurrencies, size \in LotSizes :
        CommitTreasury("set_expected_setter_auction_size",
                       set_expected_setter_auction_size(TreasuryState, origin, cur, size))

AuctionReserve ==
    \E origin \in Origins, cur \in AuctionCurrencies, amount \in ReserveAmounts,
       target \in TargetAmounts, splited \in BOOLEAN, fail_at \in 0..2 :
        CommitTreasury("auction_reserve",
                       auction_reserve(TreasuryState, origin, cur, amount, target,
                                       splited, fail_at))

\* The auction subsystem closes the auctions of a currency: nothing of it is
\* in auction any more.
AuctionsEnd ==
    \E cur \in AuctionCurrencies :
        /\ ReserveInAuction[cur] # 0
        /\ CommitTreasury("auctions_end",
                          [result |-> "Ok",
                           st |-> [TreasuryState EXCEPT !.ReserveInAuction[cur] = 0,
                                                        !.Lots = << >>]])

\* create_setter_auctions called through SerpTreasuryExtended: no
\* #[transactional], what was registered before an error stays.
CreateSetterAuctions ==
    \E cur \in AuctionCurrencies, amount \in ReserveAmounts,
       target \in TargetAmounts, splited \in BOOLEAN, fail_at \in 0..2 :
        CommitTreasury("create_setter_auctions",
                       create_setter_auctions(TreasuryState, cur, amount, target,
                                              TREASURY, splited, fail_at))

SwapExactReserveInAuctionToStable ==
    \E cur \in AuctionCurrencies, supply_amount \in ReserveAmounts,
       min_target_amount \in MinTargetAmounts, dex \in ReserveDexAnswers :
        CommitTreasury("swap_exact_reserve_in_auction_to_stable",
                       swap_exact_reserve_in_auction_to_stable(
                           TreasuryState, cur, supply_amount, min_target_amount, dex))

SwapReserveNotInAuctionWithExactStable ==
    \E cur \in AuctionCurrencies, target_amount \in StableTargetAmounts,
       max_supply_amount \in ReserveAmounts, dexq \in ReserveDexSupplyAnswers :
        CommitTreasury("swap_reserve_not_in_auction_with_exact_stable",
                       swap_reserve_not_in_auction_with_exact_stable(
                           TreasuryState, cur, target_amount, max_supply_amount, dexq))

NextAuctions ==
    \/ DepositReserve
    \/ WithdrawReserve
    \/ SetExpectedSetterAuctionSize
    \/ AuctionReserve
    \/ AuctionsEnd
    \/ CreateSetterAuctions
    \/ SwapExactReserveInAuctionToStable
    \/ SwapReserveNotInAuctionWithExactStable

SpecAuctions == InitAuctions /\ [][NextAuctions]_vars

---------------------------------------------------------------------------
(* Initial states and actions of the elasticity engine                     *)

\* The prices and supplies get_supply_change is tried with.
Prices == 0..MaxPrice \cup {100, 110}

Supplies == {0, 1, 1000, 1000000, MaxBalance}

InitSupplyChange ==
    /\ subsystem = "supply_change"
    /\ Consumers = [a \in Accounts |-> 0]
    /\ GenesisPositions
    /\ GenesisLedger(<< >>)
    /\ GenesisTreasury
    /\ serp_last = [op |-> "none", result |-> "none", currency |-> "-", amount |-> 0]
    /\ serp_calls = 0
    /\ supply_change_args \in Prices \X Prices \X Supplies
    /\ supply_change_result = NotCalled
    /\ dex_calls = << >>
    /\ GetStableCurrencyMinimumSupply = [c \in StableCurrencyIds |-> MinimumSupply]
    /\ GenesisTes

GetSupplyChange ==
    /\ supply_change_result = NotCalled
    /\ supply_change_result' \in get_supply_change(supply_change_args[1],
                                                   supply_change_args[2],
                                                   supply_change_args[3])
    /\ UNCHANGED <<pos_vars, ledger_vars, treasury_vars, serp_last, serp_calls,
                   supply_change_args, dex_calls, GetStableCurrencyMinimumSupply,
                   tes_vars, subsystem>>

NextSupplyChange == GetSupplyChange

SpecSupplyChange == InitSupplyChange /\ [][NextSupplyChange]_vars

\* The amounts SerpUp is tried with, and the stable currency in issue at
\* genesis.
SerpAmounts == {0, 15, 1000}

GenesisSupplies == {0, MaxBalance - 500}

SerpCurrencies == {SETR, USDJ, DNAR}

InitSerp ==
    /\ subsystem = "serpup"
    /\ Consumers = [a \in Accounts |-> 0]
    /\ GenesisPositions
    /\ \E supply \in GenesisSupplies :
          GenesisLedger([k \in {<<USDJ, ALICE>>, <<DNAR, DEX>>} |->
                            IF k[1] = USDJ THEN supply ELSE 300])
    /\ GenesisTreasury
    /\ GenesisSerp

OnSerpUp ==
    \E currency_id \in SerpCurrencies, amount \in SerpAmounts, dex \in DexAnswers :
        LET r == on_serpup(SerpState, currency_id, amount, dex)
        IN  /\ serp_calls < MaxSerpCalls
            /\ FreeBalance' = r.st.FreeBalance
            /\ TotalIssuance' = r.st.TotalIssuance
            /\ serp_last' = [op |-> "on_serpup", result |-> r.result,
                              currency |-> currency_id, amount |-> amount]
            /\ serp_calls' = serp_calls + 1
            /\ serp_events' = on_serpup_events(SerpState, currency_id, amount, dex)
            /\ UNCHANGED <<pos_vars, treasury_vars, supply_change_args,
                           supply_change_result, dex_calls,
                           GetStableCurrencyMinimumSupply, block_number, tes_last,
                           subsystem>>

NextSerp == OnSerpUp

SpecSerp == InitSerp /\ [][NextSerp]_vars

\* The amounts SerpDown is tried with, the stable currency in circulation
\* at genesis and the floors the runtime may configure.
SerpDownAmounts == {0, 15, 200, 1250, 1500}

SerpDownSupplies == {0, 1000}

MinimumSupplies == {0, MinimumSupply}

\* The DEX holds 300 of each currency; ALICE holds the rest of the two
\* stable currencies.
InitSerpDown ==
    /\ subsystem = "serpdown"
    /\ Consumers = [a \in Accounts |-> 0]
    /\ GenesisPositions
    /\ \E supply \in SerpDownSupplies :
          GenesisLedger([k \in {<<SETR, ALICE>>, <<USDJ, ALICE>>, <<DNAR, DEX>>,
                                <<SETR, DEX>>, <<USDJ, DEX>>} |->
                            IF k[2] = ALICE THEN supply ELSE 300])
    /\ GenesisTreasury
    /\ serp_last = [op |-> "none", result |-> "none", currency |-> "-", amount |-> 0]
    /\ serp_calls = 0
    /\ supply_change_args = <<0, 0, 0>>
    /\ supply_change_result = NotCalled
    /\ dex_calls = << >>
    /\ GetStableCurrencyMinimumSupply \in [StableCurrencyIds -> MinimumSupplies]
    /\ GenesisTes

OnSerpDown ==
    \E currency_id \in SerpCurrencies, amount \in SerpDownAmounts,
       dexq \in DexSupplyAnswers :
        LET r == on_serpdown(SerpState, currency_id, amount, dexq)
        IN  /\ serp_calls < MaxSerpCalls
            /\ FreeBalance' = r.st.FreeBalance
            /\ TotalIssuance' = r.st.TotalIssuance
            /\ serp_last' = [op |-> "on_serpdown", result |-> r.result,
                              currency |-> currency_id, amount |-> amount,
                              supply_before |-> IF currency_id \in LedgerCurrencies
                                                THEN TotalIssuance[currency_id]
                                                ELSE 0]
            /\ serp_calls' = serp_calls + 1
            /\ serp_events' = on_serpdown_events(SerpState, currency_id, amount, dexq)
            /\ dex_calls' = r.dex_calls
            /\ UNCHANGED <<pos_vars, treasury_vars, supply_change_args,
                           supply_change_result, GetStableCurrencyMinimumSupply,
                           block_number, tes_last, subsystem>>

NextSerpDown == OnSerpDown

SpecSerpDown == InitSerpDown /\ [][NextSerpDown]_vars

\* The prices the oracle may have for a currency: None when it has none.
FeedPrices == {None} \cup 0..MaxFeedPrice

\* The currencies of the elasticity cycle, in the order of on_initialize.
TesCurrencies == {SetterCurrencyId, GetSettUSDCurrencyId}

Feeds == [TesCurrencies -> [market : FeedPrices, peg : FeedPrices]]

DexPassAnswers == [up : DexAnswers, down : DexSupplyAnswers]

InitTes ==
    /\ subsystem = "tes"
    /\ Consumers = [a \in Accounts |-> 0]
    /\ GenesisPositions
    /\ GenesisLedger([k \in {<<SETR, ALICE>>, <<USDJ, ALICE>>, <<DNAR, DEX>>,
                             <<SETR, DEX>>, <<USDJ, DEX>>} |->
                         IF k[2] = ALICE THEN 1000 ELSE 300])
    /\ GenesisTreasury
    /\ GenesisSerp

\* A block begins: frame_system sets its number and the hook runs.
CommitBlock(now, r) ==
    /\ block_number' = now
    /\ FreeBalance' = r.st.FreeBalance
    /\ TotalIssuance' = r.st.TotalIssuance
    /\ tes_last' = [now |-> now, weight |-> r.weight, result |-> r.result,
                    passes |-> r.passes]
    /\ serp_events' = IF r.result = "Panicked" \/ r.passes = << >> THEN << >>
                      ELSE IF Len(r.passes) = 1 THEN r.passes[1].events
                      ELSE r.passes[1].events \o r.passes[2].events
    /\ UNCHANGED <<pos_vars, treasury_vars, serp_vars, subsystem>>

OnInitialize ==
    /\ block_number < MaxBlock
    /\ IF (block_number + 1) % SerpTesSchedule = 0
       THEN \E feed \in Feeds, dexs \in [1..2 -> DexPassAnswers] :
               \E r \in on_initialize(SerpState, block_number + 1, feed, dexs) :
                   CommitBlock(block_number + 1, r)
       ELSE \E r \in on_initialize(SerpState, block_number + 1,
                                   [c \in TesCurrencies |-> [market |-> None, peg |-> None]],
                                   [i \in 1..2 |-> CHOOSE d \in DexPassAnswers : TRUE]) :
               CommitBlock(block_number + 1, r)

NextTes == OnInitialize

SpecTes == InitTes /\ [][NextTes]_vars

\* The paths, amounts and currencies the swap helpers are called with.
SwapPaths ==
    {<< >>, <<DNAR>>, <<SETR>>, <<DNAR, SETR>>, <<SETR, DNAR>>, <<SETR, USDJ>>,
     <<USDJ, DNAR>>, <<DNAR, USDJ, SETR>>, <<SETR, DNAR, USDJ>>,
     <<USDJ, SETR, DNAR>>, <<DNAR, SETR, USDJ>>}

MaybePaths == {NoPath} \cup {SomePath(path) : path \in SwapPaths}

SwapAmounts == {0, 100, MaxBalance}

SwapTargetCurrencies == {USDJ}

\* The DEX holds 300 of each currency; ALICE holds 1000 of the two stable
\* currencies.
InitSwaps ==
    /\ subsystem = "swaps"
    /\ Consumers = [a \in Accounts |-> 0]
    /\ GenesisPositions
    /\ GenesisLedger([k \in {<<SETR, ALICE>>, <<USDJ, ALICE>>, <<DNAR, DEX>>,
                             <<SETR, DEX>>, <<USDJ, DEX>>} |->
                         IF k[2] = ALICE THEN 1000 ELSE 300])
    /\ GenesisTreasury
    /\ GenesisSerp

\* Commit the outcome r of the swap helper `op`.
CommitSwap(op, currency_id, amount, maybe_path, r) ==
    /\ serp_calls < MaxSerpCalls
    /\ FreeBalance' = r.st.FreeBalance
    /\ TotalIssuance' = r.st.TotalIssuance
    /\ serp_last' = [op |-> op, result |-> r.result, currency |-> currency_id,
                     amount |-> amount, path |-> maybe_path,
                     issuance_before |-> TotalIssuance]
    /\ serp_calls' = serp_calls + 1
    /\ dex_calls' = r.dex_calls
    /\ UNCHANGED <<pos_vars, treasury_vars, supply_change_args,
                   supply_change_result, GetStableCurrencyMinimumSupply,
                   tes_vars, subsystem>>

SwapExactDinarToSetter ==
    \E supply_amount \in SwapAmounts, maybe_path \in MaybePaths, dex \in DexAnswers :
        CommitSwap("swap_exact_dinar_to_setter", SetterCurrencyId, supply_amount,
                   maybe_path,
                   swap_exact_dinar_to_setter(SerpState, supply_amount,
                                              maybe_path, dex))

SwapDinarToExactSetter ==
    \E target_amount \in SwapAmounts, maybe_path \in MaybePaths,
       dexq \in DexSupplyAnswers :
        CommitSwap("swap_dinar_to_exact_setter", SetterCurrencyId, target_amount,
                   maybe_path,
                   swap_dinar_to_exact_setter_path(SerpState, target_amount,
                                                   maybe_path, dexq))

SwapSetterToExactSettcurrency ==
    \E currency_id \in SwapTargetCurrencies, target_amount \in SwapAmounts,
       maybe_path \in MaybePaths, dexq \in DexSupplyAnswers :
        CommitSwap("swap_setter_to_exact_settcurrency", currency_id,
                   target_amount, maybe_path,
                   swap_setter_to_exact_settcurrency_path(SerpState, currency_id,
                                                          target_amount,
                                                          maybe_path, dexq))

SwapExactStablecurrencyToDinar ==
    \E currency_id \in StableCurrencyIds, supply_amount \in SwapAmounts,
       maybe_path \in MaybePaths, dex \in DexAnswers :
        CommitSwap("swap_exact_stablecurrency_to_dinar", currency_id,
                   supply_amount, maybe_path,
                   swap_exact_stablecurrency_to_dinar_path(SerpState, currency_id,
                                                           supply_amount,
                                                           maybe_path, dex))

NextSwaps ==
    \/ SwapExactDinarToSetter
    \/ SwapDinarToExactSetter
    \/ SwapSetterToExactSettcurrency
    \/ SwapExactStablecurrencyToDinar

SpecSwaps == InitSwaps /\ [][NextSwaps]_vars

\* The accounts, amounts and prices the functions of the engine's
\* SerpTreasury are called with on their own.
EngineAccounts == {ALICE, SERP}

EngineAmounts == {0, 5, 1000}

EnginePrices == {None, 0, 1, 2}

\* ALICE holds 1000 of the two stable currencies, the DEX 300 of each swap
\* currency.
InitEngine ==
    /\ subsystem = "engine"
    /\ Consumers = [a \in Accounts |-> 0]
    /\ GenesisPositions
    /\ GenesisLedger([k \in {<<SETR, ALICE>>, <<USDJ, ALICE>>, <<DNAR, DEX>>,
                             <<SETR, DEX>>, <<USDJ, DEX>>} |->
                         IF k[2] = ALICE THEN 1000 ELSE 300])
    /\ GenesisTreasury
    /\ GenesisSerp

\* Commit the outcome r of the engine function `op`, which deposited
\* `events`.
CommitEngine(op, currency_id, amount, r, events) ==
    /\ serp_calls < MaxSerpCalls
    /\ FreeBalance' = r.st.FreeBalance
    /\ TotalIssuance' = r.st.TotalIssuance
    /\ serp_last' = [op |-> op, result |-> r.result, currency |-> currency_id,
                     amount |-> amount]
    /\ serp_calls' = serp_calls + 1
    /\ serp_events' = events
    /\ UNCHANGED <<pos_vars, treasury_vars, supply_change_args,
                   supply_change_result, dex_calls,
                   GetStableCurrencyMinimumSupply, block_number, tes_last,
                   subsystem>>

SerpUpDeliveryEvent(amount, currency_id) ==
    <<[event |-> "SerpUpDelivery", amount |-> amount, currency |-> currency_id]>>

GetBuybackSerpup ==
    \E amount \in EngineAmounts, currency_id \in StableCurrencyIds,
       dex \in DexAnswers :
        CommitEngine("get_buyback_serpup", currency_id, amount,
                     get_buyback_serpup(SerpState, amount, currency_id, dex),
                     SerpUpDeliveryEvent(amount, currency_id))

GetSettpaySerpup ==
    \E amount \in EngineAmounts, currency_id \in StableCurrencyIds :
        CommitEngine("get_settpay_serpup", currency_id, amount,
                     get_settpay_serpup(SerpState, amount, currency_id),
                     SerpUpDeliveryEvent(amount, currency_id))

GetCharityFundSerpup ==
    \E amount \in EngineAmounts, currency_id \in StableCurrencyIds :
        CommitEngine("get_charity_fund_serpup", currency_id, amount,
                     get_charity_fund_serpup(SerpState, amount, currency_id),
                     SerpUpDeliveryEvent(amount, currency_id))

SerpIssueStandard ==
    \E currency_id \in StableCurrencyIds, who \in EngineAccounts,
       standard \in EngineAmounts :
        CommitEngine("issue_standard", currency_id, standard,
                     serp_issue_standard(SerpState, currency_id, who, standard),
                     << >>)

SerpBurnStandard ==
    \E currency_id \in StableCurrencyIds, who \in EngineAccounts,
       standard \in EngineAmounts :
        CommitEngine("burn_standard", currency_id, standard,
                     serp_burn_standard(SerpState, currency_id, who, standard),
                     << >>)

IssuePropper ==
    \E currency_id \in StableCurrencyIds, who \in EngineAccounts,
       propper \in EngineAmounts :
        CommitEngine("issue_propper", currency_id, propper,
                     issue_propper(SerpState, currency_id, who, propper), << >>)

BurnPropper ==
    \E currency_id \in StableCurrencyIds, who \in EngineAccounts,
       propper \in EngineAmounts :
        CommitEngine("burn_propper", currency_id, propper,
                     burn_propper(SerpState, currency_id, who, propper), << >>)

IssueSetter ==
    \E who \in EngineAccounts, setter \in EngineAmounts :
        CommitEngine("issue_setter", SETR, setter,
                     issue_setter(SerpState, who, setter), << >>)

BurnSetter ==
    \E who \in EngineAccounts, setter \in EngineAmounts :
        CommitEngine("burn_setter", SETR, setter,
                     burn_setter(SerpState, who, setter), << >>)

IssueDinar ==
    \E who \in EngineAccounts, dinar \in EngineAmounts :
        CommitEngine("issue_dinar", GetNativeCurrencyId, dinar,
                     issue_dinar(SerpState, who, dinar), << >>)

BurnDinar ==
    \E who \in EngineAccounts \cup {DEX}, dinar \in EngineAmounts :
        CommitEngine("burn_dinar", GetNativeCurrencyId, dinar,
                     burn_dinar(SerpState, who, dinar), << >>)

SerpIssueDexer ==
    \E who \in EngineAccounts, dexer \in EngineAmounts :
        CommitEngine("issue_dexer", DirhamCurrencyId, dexer,
                     serp_issue_dexer(SerpState, who, dexer), << >>)

SerpBurnDexer ==
    \E who \in EngineAccounts, dexer \in EngineAmounts :
        CommitEngine("burn_dexer", DirhamCurrencyId, dexer,
                     serp_burn_dexer(SerpState, who, dexer), << >>)

SerpDepositSerplus ==
    \E currency_id \in StableCurrencyIds, from \in EngineAccounts,
       serplus \in EngineAmounts :
        CommitEngine("deposit_serplus", currency_id, serplus,
                     serp_deposit_serplus(SerpState, currency_id, from, serplus),
                     << >>)

DepositSetter ==
    \E from \in EngineAccounts, amount \in EngineAmounts :
        CommitEngine("deposit_setter", SETR, amount,
                     deposit_setter(SerpState, from, amount), << >>)

WithdrawDinar ==
    \E to \in EngineAccounts, amount \in EngineAmounts :
        CommitEngine("withdraw_dinar", GetNativeCurrencyId, amount,
                     withdraw_dinar(SerpState, to, amount), << >>)

\* setter_on_tes and usdj_on_tes called on their own.  A panic leaves the
\* storage as it was.
SetterOnTes ==
    \E market_price \in EnginePrices, peg_price \in EnginePrices,
       dex \in DexAnswers, dexq \in DexSupplyAnswers :
        \E o \in setter_on_tes(SerpState, market_price, peg_price, dex, dexq) :
            CommitEngine("setter_on_tes", SetterCurrencyId, 0,
                         IF o.result = "Panicked"
                         THEN [result |-> "Panicked", st |-> SerpState]
                         ELSE [result |-> o.result, st |-> o.st],
                         IF o.result = "Panicked" THEN << >> ELSE o.events)

UsdjOnTes ==
    \E market_price \in EnginePrices, peg_price \in EnginePrices,
       dex \in DexAnswers, dexq \in DexSupplyAnswers :
        \E o \in usdj_on_tes(SerpState, market_price, peg_price, dex, dexq) :
            CommitEngine("usdj_on_tes", GetSettUSDCurrencyId, 0,
                         IF o.result = "Panicked"
                         THEN [result |-> "Panicked", st |-> SerpState]
                         ELSE [result |-> o.result, st |-> o.st],
                         IF o.result = "Panicked" THEN << >> ELSE o.events)

NextEngine ==
    \/ GetBuybackSerpup
    \/ GetSettpaySerpup
    \/ GetCharityFundSerpup
    \/ SerpIssueStandard
    \/ SerpBurnStandard
    \/ IssuePropper
    \/ BurnPropper
    \/ IssueSetter
    \/ BurnSetter
    \/ IssueDinar
    \/ BurnDinar
    \/ SerpIssueDexer
    \/ SerpBurnDexer
    \/ SerpDepositSerplus
    \/ DepositSetter
    \/ WithdrawDinar
    \/ SetterOnTes
    \/ UsdjOnTes

SpecEngine == InitEngine /\ [][NextEngine]_vars

Init == InitPositions \/ InitTreasury \/ InitAuctions \/ InitSupplyChange \/ InitSerp \/ InitSerpDown \/ InitTes \/ InitSwaps \/ InitEngine

\* Each behaviour exercises one part of the runtime from its own genesis.
Next ==
    \/ subsystem = "positions" /\ NextPositions
    \/ subsystem = "treasury" /\ NextTreasury
    \/ subsystem = "auctions" /\ NextAuctions
    \/ subsystem = "supply_change" /\ NextSupplyChange
    \/ subsystem = "serpup" /\ NextSerp
    \/ subsystem = "serpdown" /\ NextSerpDown
    \/ subsystem = "tes" /\ NextTes
    \/ subsystem = "swaps" /\ NextSwaps
    \/ subsystem = "engine" /\ NextEngine

Spec == Init /\ [][Next]_vars

---------------------------------------------------------------------------
(* Position ledger: properties                                             *)

RECURSIVE SumField(_, _, _, _)
\* Sum of one field of the positions of the accounts in S.
SumField(ps, c, S, field) ==
    IF S = {} THEN 0
    ELSE LET a == CHOOSE x \in S : TRUE
         IN  positions(ps, c, a)[field] + SumField(ps, c, S \ {a}, field)

\* C1: as long as only update_position / adjust_position calls have acted,
\* the position of every account equals the sum of the deltas of the calls
\* that succeeded; a failed call adds nothing.
C1_PositionIsSumOfDeltas ==
    ~transferred =>
        \A c \in PosCurrencies, a \in Accounts :
            positions(Positions, c, a) = applied[a]

\* A failed call has just acted on an account whose earlier updates summed
\* to a non-zero position.
C1_Witness ==
    /\ ~transferred
    /\ pos_last.result \in {"Underflow", "Overflow", "BalanceTooLow"}
    /\ applied[ALICE] = [reserve |-> 2 * MaxAmount, standard |-> MaxAmount]

\* C2: a record is in the store exactly when one of its fields is non-zero:
\* no stored record has both fields zero, and the fields of an absent record
\* read as zero.
C2_RecordIffNonZero ==
    \A c \in PosCurrencies, a \in Accounts :
        LET p == positions(Positions, c, a)
        IN  contains_key(Positions, c, a) <=> (p.reserve # 0 \/ p.standard # 0)

\* An update has just brought a position back to zero and the record is gone,
\* while another account still has one.
C2_Witness ==
    /\ pos_last.op = "update_position" /\ pos_last.result = "Ok"
    /\ ~contains_key(Positions, EURJ, ALICE)
    /\ contains_key(Positions, EURJ, BOB)
    /\ transferred = FALSE
    /\ applied[ALICE] = ZeroPosition
    /\ FreeBalance[<<EURJ, ALICE>>] = EndowedBalance + MaxAmount \div 2

\* C3: for every currency the totals equal the sums of the positions of all
\* accounts, field by field.
C3_TotalsAreSums ==
    \A c \in PosCurrencies :
        /\ TotalPositions[c].reserve = SumField(Positions, c, Accounts, "reserve")
        /\ TotalPositions[c].standard = SumField(Positions, c, Accounts, "standard")

\* After a successful transfer onto BOB, a second transfer from ALICE has
\* failed; the totals are those of BOB's position.
C3_Witness ==
    /\ transferred
    /\ pos_last = [op |-> "transfer_position", result |-> "NoPosition",
                   from |-> ALICE, to |-> BOB]
    /\ positions(Positions, EURJ, BOB) =
           [reserve |-> 2 * MaxAmount, standard |-> MaxAmount]
    /\ TotalPositions[EURJ] = [reserve |-> 2 * MaxAmount, standard |-> MaxAmount]

\* C4: in every reachable state, an update_position or adjust_position whose
\* reserve or standard delta would take the field below zero fails with
\* Underflow and leaves positions, totals, reference counts and ledger
\* balances as they were.
C4_UnderflowIsNoop ==
    \A who \in Accounts, c \in PosCurrencies, rd \in DeltaAmounts, sd \in DeltaAmounts :
        LET p == positions(Positions, c, who)
        IN  (p.reserve + rd < 0 \/ p.standard + sd < 0) =>
                /\ update_position(PosState, who, c, rd, sd) =
                       [result |-> "Underflow", st |-> PosState]
                /\ adjust_position(PosState, who, c, rd, sd) =
                       [result |-> "Underflow", st |-> PosState]

\* A call has just failed with Underflow in a state that holds a position.
C4_Witness ==
    /\ pos_last.result = "Underflow"
    /\ positions(Positions, EURJ, ALICE) = [reserve |-> 500, standard |-> 0]
    /\ FreeBalance[<<SETR, SETTMINT>>] = 250

\* C5: a successful transfer_position(A, B, currency) with A # B leaves A
\* without a record, B with the field-wise sum of the two positions, and the
\* totals as they were.
C5_TransferMovesPosition ==
    \A from \in Accounts, to \in Accounts, c \in PosCurrencies :
        LET r  == transfer_position(PosState, from, to, c)
            pf == positions(Positions, c, from)
            pt == positions(Positions, c, to)
        IN  (from # to /\ r.result = "Ok") =>
                /\ ~contains_key(r.st.Positions, c, from)
                /\ positions(r.st.Positions, c, from) = ZeroPosition
                /\ positions(r.st.Positions, c, to) =
                       [reserve |-> pf.reserve + pt.reserve,
                        standard |-> pf.standard + pt.standard]
                /\ r.st.TotalPositions[c] = TotalPositions[c]

\* ALICE's position has just been transferred onto BOB's non-empty one.
C5_Witness ==
    /\ pos_last = [op |-> "transfer_position", result |-> "Ok",
                   from |-> ALICE, to |-> BOB]
    /\ ~contains_key(Positions, EURJ, ALICE)
    /\ positions(Positions, EURJ, BOB) =
           [reserve |-> 2 * MaxAmount, standard |-> MaxAmount]

\* C6: the reference count of every account is its count before any position
\* was opened plus the number of position records it has now.
C6_ConsumersCountRecords ==
    \A a \in Accounts :
        Consumers[a] = consumers0[a] +
            Cardinality({c \in PosCurrencies : contains_key(Positions, c, a)})

\* A record was created for BOB and ALICE's was deleted; ALICE holds another
\* reference from before.
C6_Witness ==
    /\ pos_last.op = "update_position" /\ pos_last.result = "Ok"
    /\ contains_key(Positions, EURJ, BOB)
    /\ ~contains_key(Positions, EURJ, ALICE)
    /\ applied[ALICE] = ZeroPosition /\ ~transferred
    /\ FreeBalance[<<EURJ, ALICE>>] = EndowedBalance + MaxAmount \div 2
    /\ consumers0[ALICE] = 1 /\ Consumers[ALICE] = 1
    /\ Consumers[BOB] = consumers0[BOB] + 1

---------------------------------------------------------------------------
(* Treasury pools and auction lots: properties                             *)

\* C7: offsetting the pools when the standard pool or the serplus pool is
\* zero withdraws nothing from the ledger and leaves the standard pool as it
\* is; one offset leaves one of the two pools at zero, so offsetting twice
\* gives the same state as offsetting once.
C7_OffsetIdempotent ==
    LET once == offset_serplusand_standard(TreasuryState)
    IN  /\ (StandardPool = 0 \/ serpluspool(TreasuryState) = 0)
               => once = TreasuryState
        /\ (once.StandardPool = 0 \/ serpluspool(once) = 0)
        /\ offset_serplusand_standard(once) = once

\* The end of a block has just offset a non-zero amount, which emptied the
\* serplus pool and left bad standard behind.
C7_Witness ==
    /\ t_last.op = "on_finalize"
    /\ last_offset = MaxAmount
    /\ StandardPool = MaxAmount
    /\ serpluspool(TreasuryState) = 0

\* The reserve amounts of a sequence of lots.
LotAmounts(lots) == [i \in 1..Len(lots) |-> lots[i].amount]

\* C10: with splitting allowed, amount = 25, target = 25, expected lot size
\* 10 and at most 10 lots, create_setter_auctions registers exactly 3 lots
\* with reserve amounts 8, 8 and 9 (each lot but the last gets floor(25/3));
\* no lot other than the final one gets more than the expected lot size as
\* long as ceil(amount / expected lot size) is at most the maximum lot count.
C10_LotsOfTheSplit ==
    \A cur \in AuctionCurrencies, amount \in ReserveAmounts,
       target \in TargetAmounts, splited \in BOOLEAN :
        LET r == create_setter_auctions(TreasuryState, cur, amount, target,
                                        TREASURY, splited, 0)
            size == ExpectedSetterAuctionSize[cur]
            lots == r.st.Lots
        IN  r.result = "Ok" =>
              /\ (splited /\ amount = 25 /\ target = 25 /\ size = 10)
                     => LotAmounts(lots) = <<8, 8, 9>>
              /\ lots_count_uncapped(TreasuryState, cur, amount, splited)
                        <= MaxAuctionsCount
                     => \A i \in 1..(Len(lots) - 1) :
                            size # 0 => lots[i].amount <= size

\* auction_reserve has just split 25 of reserve with target 25 under an
\* expected lot size of 10.
C10_Witness ==
    /\ t_last = [op |-> "auction_reserve", result |-> "Ok"]
    /\ ExpectedSetterAuctionSize[SETR] = 10
    /\ Lots = <<[amount |-> 8, target |-> 8], [amount |-> 8, target |-> 8],
                [amount |-> 9, target |-> 9]>>

\* C10 as the specification states it: the lots are 10, 10 and 5, and no
\* lot other than the final one gets more than the expected lot size.
C10_AsStated ==
    \A cur \in AuctionCurrencies, amount \in ReserveAmounts,
       target \in TargetAmounts, splited \in BOOLEAN :
        LET r == create_setter_auctions(TreasuryState, cur, amount, target,
                                        TREASURY, splited, 0)
            size == ExpectedSetterAuctionSize[cur]
            lots == r.st.Lots
        IN  r.result = "Ok" =>
              /\ (splited /\ amount = 25 /\ target = 25 /\ size = 10)
                     => LotAmounts(lots) = <<10, 10, 5>>
              /\ \A i \in 1..(Len(lots) - 1) :
                     size # 0 => lots[i].amount <= size


---------------------------------------------------------------------------
(* Elasticity engine: properties                                           *)

\* The product of two Balances is a Balance.
ProductIsBalance(a, b) == a = 0 \/ b <= MaxBalance \div a

\* supply_change as the specification gives it, held at the largest Balance.
SupplyChange(greater, lesser, supply) ==
    IF ProductIsBalance((greater \div lesser) - 1, supply)
    THEN ((greater \div lesser) - 1) * supply
    ELSE MaxBalance

\* C8: for greater > lesser > 0, get_supply_change(greater, lesser, supply)
\* gives (floor(greater / lesser) - 1) * supply, held at Balance::MAX when
\* the product is larger; it gives 0 whenever greater < 2 * lesser, as for
\* (110, 100, 1000000).
C8_SupplyChange ==
    LET greater == supply_change_args[1]
        lesser == supply_change_args[2]
        supply == supply_change_args[3]
    IN  (supply_change_result # NotCalled /\ greater > lesser /\ lesser > 0) =>
           /\ supply_change_result =
                  SupplyChange(greater, lesser, supply)
           /\ greater < 2 * lesser => supply_change_result = 0

\* get_supply_change(110, 100, 1000000) has given 0.
C8_Witness ==
    /\ supply_change_args = <<110, 100, 1000000>>
    /\ supply_change_result = 0

\* C8 as the specification states it: the result is the product itself.
C8_AsStated ==
    LET greater == supply_change_args[1]
        lesser == supply_change_args[2]
        supply == supply_change_args[3]
    IN  (supply_change_result # NotCalled /\ greater > lesser /\ lesser > 0) =>
           /\ ProductIsBalance((greater \div lesser) - 1, supply)
           /\ supply_change_result = ((greater \div lesser) - 1) * supply
           /\ greater < 2 * lesser => supply_change_result = 0

\* What a mint of `amount` adds to the issuance of a currency: nothing when
\* the issuance would leave the Balance range.
Minted(st, currency_id, amount) ==
    IF st.TotalIssuance[currency_id] + amount > MaxBalance THEN 0 ELSE amount

\* C9: on_serpup with a non-zero amount A on a stable currency mints
\* 3 * floor(A / 10) on the buy-back leg, 6 * floor(A / 10) to the SettPay
\* account and floor(A / 10) to the charity account, each from the same A
\* (the division comes first), a leg minting nothing when its mint would
\* take the total issuance out of the Balance range; for A = 1000 and no
\* such overflow the mints are 300, 600 and 100.
C9_SerpUpMints ==
    \A currency_id \in StableCurrencyIds, amount \in SerpAmounts \ {0},
       dex \in DexAnswers :
        LET st == SerpState
            buyback == get_buyback_serpup(st, amount, currency_id, dex).st
            settpay == get_settpay_serpup(buyback, amount, currency_id).st
            charity == get_charity_fund_serpup(settpay, amount, currency_id).st
            tenth == amount \div 10
            roomy == st.TotalIssuance[currency_id] + amount <= MaxBalance
        IN  /\ on_serpup(st, currency_id, amount, dex) = [result |-> "Ok", st |-> charity]
            /\ buyback.TotalIssuance[currency_id] - st.TotalIssuance[currency_id]
                  = Minted(st, currency_id, 3 * tenth)
            /\ settpay.TotalIssuance[currency_id] - buyback.TotalIssuance[currency_id]
                  = Minted(buyback, currency_id, 6 * tenth)
            /\ settpay.FreeBalance[<<currency_id, SETTPAY>>]
                  - buyback.FreeBalance[<<currency_id, SETTPAY>>]
                  = Minted(buyback, currency_id, 6 * tenth)
            /\ charity.TotalIssuance[currency_id] - settpay.TotalIssuance[currency_id]
                  = Minted(settpay, currency_id, tenth)
            /\ charity.FreeBalance[<<currency_id, CHARITY>>]
                  - settpay.FreeBalance[<<currency_id, CHARITY>>]
                  = Minted(settpay, currency_id, tenth)
            /\ (amount = 1000 /\ roomy) =>
                  /\ buyback.TotalIssuance[currency_id]
                        = st.TotalIssuance[currency_id] + 300
                  /\ settpay.FreeBalance[<<currency_id, SETTPAY>>]
                        = st.FreeBalance[<<currency_id, SETTPAY>>] + 600
                  /\ charity.FreeBalance[<<currency_id, CHARITY>>]
                        = st.FreeBalance[<<currency_id, CHARITY>>] + 100
                  /\ charity.TotalIssuance[currency_id]
                        = st.TotalIssuance[currency_id] + 1000

\* The first on_serpup, with amount 1000 of USDJ, has just minted 1000: 600
\* to the SettPay account, 100 to the charity account and 300 that the
\* buy-back swapped on the DEX.
C9_Witness ==
    /\ serp_last = [op |-> "on_serpup", result |-> "Ok", currency |-> USDJ,
                    amount |-> 1000]
    /\ serp_calls = 1
    /\ TotalIssuance[USDJ] = 1000
    /\ FreeBalance[<<USDJ, SETTPAY>>] = 600
    /\ FreeBalance[<<USDJ, CHARITY>>] = 100
    /\ FreeBalance[<<USDJ, DEX>>] = 300

\* C9 as the specification states it: amount * 3 / 10, amount * 6 / 10 and
\* amount * 1 / 10, the multiplication coming first.
C9_AsStated ==
    \A currency_id \in StableCurrencyIds, amount \in SerpAmounts \ {0},
       dex \in DexAnswers :
        LET st == SerpState
            buyback == get_buyback_serpup(st, amount, currency_id, dex).st
            settpay == get_settpay_serpup(buyback, amount, currency_id).st
            charity == get_charity_fund_serpup(settpay, amount, currency_id).st
        IN  /\ buyback.TotalIssuance[currency_id] - st.TotalIssuance[currency_id]
                  = (amount * 3) \div 10
            /\ settpay.FreeBalance[<<currency_id, SETTPAY>>]
                  - buyback.FreeBalance[<<currency_id, SETTPAY>>]
                  = (amount * 6) \div 10
            /\ charity.FreeBalance[<<currency_id, CHARITY>>]
                  - settpay.FreeBalance[<<currency_id, CHARITY>>]
                  = amount \div 10


---------------------------------------------------------------------------
(* Auction lots: partition                                                 *)

RECURSIVE SumLots(_, _)
\* Sum of one field over a sequence of lots.
SumLots(lots, field) ==
    IF lots = << >> THEN 0
    ELSE lots[1][field] + SumLots(Tail(lots), field)

\* Every lot but the last carries floor(amount / count) and
\* floor(target / count), the last one the rest.
LotsAreAverageAndRest(lots, amount, target) ==
    LET count == Len(lots)
    IN  /\ \A i \in 1..(count - 1) :
              /\ lots[i].amount = amount \div count
              /\ lots[i].target = target \div count
        /\ count > 0 =>
              /\ lots[count].amount = amount - (count - 1) * (amount \div count)
              /\ lots[count].target = target - (count - 1) * (target \div count)

\* C11: the lots of a successful create_setter_auctions carry reserve
\* amounts that sum to amount; when amount > 0 their targets sum to target
\* (also when the lot count does not divide it), every lot but the last
\* getting floor(amount / lot_count) and floor(target / lot_count) and the
\* last the rest; with amount = 0 no lot is created, whatever the target.
C11_LotsPartition ==
    \A cur \in AuctionCurrencies, amount \in ReserveAmounts,
       target \in TargetAmounts, splited \in BOOLEAN, fail_at \in 0..2 :
        LET r == create_setter_auctions(TreasuryState, cur, amount, target,
                                        TREASURY, splited, fail_at)
            lots == r.st.Lots
        IN  r.result = "Ok" =>
              /\ SumLots(lots, "amount") = amount
              /\ amount > 0 =>
                    /\ SumLots(lots, "target") = target
                    /\ Len(lots) = lots_count(TreasuryState, cur, amount, splited)
                    /\ LotsAreAverageAndRest(lots, amount, target)
              /\ amount = 0 => lots = << >>

\* auction_reserve has just split 25 of reserve with target 7 in three
\* lots: the targets are 2, 2 and 3.
C11_Witness ==
    /\ t_last = [op |-> "auction_reserve", result |-> "Ok"]
    /\ Lots = <<[amount |-> 8, target |-> 2], [amount |-> 8, target |-> 2],
                [amount |-> 9, target |-> 3]>>
    /\ ReserveInAuction[SETR] = 25

\* C11 as the specification states it: the targets sum to target for every
\* successful call, amount = 0 with target > 0 included.
C11_AsStated ==
    \A cur \in AuctionCurrencies, amount \in ReserveAmounts,
       target \in TargetAmounts, splited \in BOOLEAN, fail_at \in 0..2 :
        LET r == create_setter_auctions(TreasuryState, cur, amount, target,
                                        TREASURY, splited, fail_at)
            lots == r.st.Lots
        IN  r.result = "Ok" =>
              /\ SumLots(lots, "amount") = amount
              /\ SumLots(lots, "target") = target
              /\ LotsAreAverageAndRest(lots, amount, target)


---------------------------------------------------------------------------
(* Treasury pools: the offset step and the pool operations                 *)

\* C12: the offset step takes offset = min(standard pool, serplus pool);
\* when offset > 0 it withdraws exactly offset of the stable currency from
\* the treasury account (balance and total issuance drop by offset) and
\* lowers the standard pool by exactly offset, and nothing else changes;
\* when offset = 0 it changes nothing.
C12_OffsetStep ==
    LET st == TreasuryState
        offset == Min(StandardPool, FreeBalance[<<GetStableCurrencyId, TREASURY>>])
        once == offset_serplusand_standard(st)
    IN  IF offset > 0
        THEN once = [st EXCEPT
                        !.FreeBalance[<<GetStableCurrencyId, TREASURY>>] = @ - offset,
                        !.TotalIssuance[GetStableCurrencyId] = @ - offset,
                        !.StandardPool = @ - offset]
        ELSE once = st

\* The end of a block has just offset 2 * MaxAmount: both pools are empty
\* and the stable currency that was the serplus is burnt.
C12_Witness ==
    /\ t_last.op = "on_finalize"
    /\ last_offset = 2 * MaxAmount
    /\ StandardPool = 0
    /\ FreeBalance[<<GetStableCurrencyId, TREASURY>>] = 0
    /\ TotalIssuance[GetStableCurrencyId] = 0


\* C13: in every reachable state the offset step cannot fail: the checked
\* subtraction of the offset from the standard pool does not underflow, the
\* pool stays a Balance, and the pool is lowered only together with a
\* withdrawal of the same amount that went through.
C13_OffsetCannotFail ==
    LET st == TreasuryState
        once == offset_serplusand_standard(st)
        w == ledger_withdraw(st, GetStableCurrencyId, TREASURY, offset_amount(st))
    IN  /\ ~offset_panics(st)
        /\ checked_sub(StandardPool, offset_amount(st)) # None
        /\ once.StandardPool \in 0..MaxBalance
        /\ once.StandardPool # StandardPool =>
              /\ w.ok
              /\ once.FreeBalance = w.st.FreeBalance
              /\ once.TotalIssuance = w.st.TotalIssuance
              /\ StandardPool - once.StandardPool
                    = TotalIssuance[GetStableCurrencyId]
                        - once.TotalIssuance[GetStableCurrencyId]

\* The end of a block has just offset the whole standard pool against a
\* larger serplus pool.
C13_Witness ==
    /\ t_last.op = "on_finalize"
    /\ last_offset = MaxAmount
    /\ StandardPool = 0
    /\ FreeBalance[<<GetStableCurrencyId, TREASURY>>] = MaxAmount


\* C14: on_system_standard(amount) sets the standard pool to its sum with
\* amount when the sum is a Balance; otherwise it fails with
\* StandardPoolOverflow and the pool keeps its value.  No ledger balance
\* changes in either case.
C14_OnSystemStandard ==
    \A amount \in PoolAmounts :
        LET st == TreasuryState
            r == on_system_standard(st, amount)
        IN  /\ StandardPool + amount <= MaxBalance =>
                  /\ r.result = "Ok"
                  /\ r.st = [st EXCEPT !.StandardPool = StandardPool + amount]
            /\ StandardPool + amount > MaxBalance =>
                  /\ r.result = "StandardPoolOverflow"
                  /\ r.st = st
            /\ r.st.FreeBalance = FreeBalance
            /\ r.st.TotalIssuance = TotalIssuance

\* on_system_standard has just failed on a standard pool of 2 * MaxAmount
\* while the treasury holds stable currency.
C14_Witness ==
    /\ t_last = [op |-> "on_system_standard", result |-> "StandardPoolOverflow"]
    /\ StandardPool = 2 * MaxAmount
    /\ FreeBalance[<<GetStableCurrencyId, TREASURY>>] = MaxAmount

\* C15: a successful on_system_serplus(amount) raises the treasury
\* account's balance of the stable currency and the total issuance of the
\* stable currency by exactly amount; the standard pool, every other balance
\* and every other part of the state stay as they are.  (The mint fails,
\* changing nothing, only when the total issuance would leave the Balance
\* range.)
C15_OnSystemSerplus ==
    \A amount \in PoolAmounts :
        LET st == TreasuryState
            r == on_system_serplus(st, amount)
        IN  /\ r.result = "Ok" =>
                  r.st = [st EXCEPT
                             !.FreeBalance[<<GetStableCurrencyId, TREASURY>>] = @ + amount,
                             !.TotalIssuance[GetStableCurrencyId] = @ + amount]
            /\ r.result # "Ok" =>
                  /\ r.st = st
                  /\ TotalIssuance[GetStableCurrencyId] + amount > MaxBalance
            /\ r.st.StandardPool = StandardPool

\* on_system_serplus has just minted MaxAmount to the treasury, next to a
\* non-zero standard pool and a balance of ALICE.
C15_Witness ==
    /\ t_last = [op |-> "on_system_serplus", result |-> "Ok"]
    /\ FreeBalance[<<GetStableCurrencyId, TREASURY>>] = MaxAmount
    /\ FreeBalance[<<GetStableCurrencyId, ALICE>>] = MaxAmount
    /\ TotalIssuance[GetStableCurrencyId] = 2 * MaxAmount
    /\ StandardPool = MaxAmount


---------------------------------------------------------------------------
(* Elasticity cycle: properties                                            *)

\* C16: in the pass of a currency whose two prices are there (the smaller
\* one not 0, so that supply_change is defined): with market > peg the pass
\* calls on_serpup, and nothing else, with supply_change(market, peg, total
\* supply); with market < peg it calls on_serpdown, and nothing else, with
\* supply_change(peg, market, total supply); with equal prices it calls
\* neither and the ledger stays as it is.
C16_PassBranches ==
    \A currency_id \in TesCurrencies, market \in 0..MaxFeedPrice,
       peg \in 0..MaxFeedPrice, dex \in DexAnswers, dexq \in DexSupplyAnswers :
        \A o \in serp_tes(SerpState, currency_id, market, peg, dex, dexq) :
            LET supply == TotalIssuance[currency_id]
            IN  /\ (market > peg /\ peg > 0) =>
                      o.invoked = <<[op |-> "on_serpup", currency |-> currency_id,
                                     amount |-> SupplyChange(market, peg, supply)]>>
                /\ (market < peg /\ market > 0) =>
                      o.invoked = <<[op |-> "on_serpdown", currency |-> currency_id,
                                     amount |-> SupplyChange(peg, market, supply)]>>
                /\ market = peg =>
                      /\ o.invoked = << >>
                      /\ o.st = SerpState

\* A cycle has just run: the Setter pass (market 2, peg 1) called on_serpup
\* with the whole supply of 1300, the USDJ pass (market 1, peg 3) called
\* on_serpdown with twice the supply.
C16_Witness ==
    /\ tes_last.now = SerpTesSchedule
    /\ Len(tes_last.passes) = 2
    /\ tes_last.passes[1].market = 2 /\ tes_last.passes[1].peg = 1
    /\ tes_last.passes[1].invoked =
          <<[op |-> "on_serpup", currency |-> SETR, amount |-> 1300]>>
    /\ tes_last.passes[2].market = 1 /\ tes_last.passes[2].peg = 3
    /\ tes_last.passes[2].invoked =
          <<[op |-> "on_serpdown", currency |-> USDJ, amount |-> 2600]>>

\* C17: in a triggered cycle an error of the Setter pass (InvalidFeedPrice
\* for a missing price, or the error of its on_serpup / on_serpdown) does
\* not keep the USDJ pass from being attempted: both passes are attempted,
\* in the order of the list.
C17_EveryPassAttempted ==
    (tes_last.passes # << >> /\ tes_last.passes[1].result # "Panicked") =>
        /\ Len(tes_last.passes) = 2
        /\ tes_last.passes[1].currency = SetterCurrencyId
        /\ tes_last.passes[2].currency = GetSettUSDCurrencyId

\* The Setter pass has just failed for a missing price and the USDJ pass of
\* the same cycle went through an expansion.
C17_Witness ==
    /\ Len(tes_last.passes) = 2
    /\ tes_last.passes[1].result = "InvalidFeedPrice"
    /\ tes_last.passes[2].result = "Ok"
    /\ tes_last.passes[2].invoked =
          <<[op |-> "on_serpup", currency |-> USDJ, amount |-> 1300]>>
    /\ TotalIssuance[USDJ] = 2600

\* A pass whose prices are both there.
PricedPasses ==
    {i \in 1..Len(tes_last.passes) :
        /\ tes_last.passes[i].market # None
        /\ tes_last.passes[i].peg # None
        /\ tes_last.passes[i].result # "Panicked"}

\* C18 as the specification states it: every pass whose prices are there
\* ends with the SerpTes event of its currency, whichever arm it took and
\* whether or not the on_serpup / on_serpdown it called succeeded.
C18_AsStated ==
    \A i \in PricedPasses :
        LET pass == tes_last.passes[i]
        IN  /\ pass.events # << >>
            /\ pass.events[Len(pass.events)] = SerpTesEvent(pass.currency)

\* What the code does: the event is there exactly when on_serpup /
\* on_serpdown returned no error.
C18_EventOnlyOnSuccess ==
    \A i \in PricedPasses :
        LET pass == tes_last.passes[i]
        IN  IF pass.result = "Ok"
            THEN /\ pass.events # << >>
                 /\ pass.events[Len(pass.events)] = SerpTesEvent(pass.currency)
            ELSE pass.events = << >>

\* The Setter pass (market 3, peg 2) has called on_serpup with a supply
\* change of 0, which failed with InvalidAmount: no SerpTes event.
C18_Witness ==
    /\ Len(tes_last.passes) = 2
    /\ tes_last.passes[1].market = 3 /\ tes_last.passes[1].peg = 2
    /\ tes_last.passes[1].invoked =
          <<[op |-> "on_serpup", currency |-> SETR, amount |-> 0]>>
    /\ tes_last.passes[1].result = "InvalidAmount"
    /\ tes_last.passes[1].events = << >>


---------------------------------------------------------------------------
(* SerpUp: checks and the buy-back leg                                     *)

\* C19: on_serpup fails with InvalidCurrencyType for a currency that is not
\* a stable currency and with InvalidAmount for amount 0 on a stable one; in
\* both cases the ledger stays as it is (no mint, swap or burn) and no event
\* is deposited.
C19_SerpUpChecks ==
    \A currency_id \in SerpCurrencies, amount \in SerpAmounts, dex \in DexAnswers :
        LET r == on_serpup(SerpState, currency_id, amount, dex)
            events == on_serpup_events(SerpState, currency_id, amount, dex)
        IN  /\ currency_id \notin StableCurrencyIds =>
                  r.result = "InvalidCurrencyType"
            /\ (currency_id \in StableCurrencyIds /\ amount = 0) =>
                  r.result = "InvalidAmount"
            /\ (currency_id \notin StableCurrencyIds \/ amount = 0) =>
                  /\ r.st = SerpState
                  /\ events = << >>

\* After an on_serpup that minted 1000 USDJ, an on_serpup with amount 0 has
\* just failed: the ledger is as the first call left it and no event is
\* there.
C19_Witness ==
    /\ serp_last = [op |-> "on_serpup", result |-> "InvalidAmount",
                    currency |-> USDJ, amount |-> 0]
    /\ serp_calls = 2
    /\ serp_events = << >>
    /\ TotalIssuance[USDJ] = 1000
    /\ FreeBalance[<<USDJ, SETTPAY>>] = 600

\* The native token the buy-back leg burns, and the proceeds of its swap.
BuybackBurnt(st, amount, currency_id, dex) ==
    st.TotalIssuance[GetNativeCurrencyId]
        - get_buyback_serpup(st, amount, currency_id, dex).st.TotalIssuance[GetNativeCurrencyId]

BuybackProceeds(st, amount, currency_id, dex) ==
    IF swap_exact_stablecurrency_to_dinar(st, currency_id,
                                          3 * (amount \div 10), dex).result = "Ok"
    THEN dex.target
    ELSE 0

\* C20 as the specification states it: the buy-back leg burns the native
\* token the swap paid, and nothing when the swap failed.
C20_AsStated ==
    \A currency_id \in StableCurrencyIds, amount \in SerpAmounts \ {0},
       dex \in DexAnswers :
        BuybackBurnt(SerpState, amount, currency_id, dex)
            = BuybackProceeds(SerpState, amount, currency_id, dex)

\* What the code does: it burns the amount of stable currency it minted for
\* the swap, 3 * floor(amount / 10), from the engine's native balance when
\* that balance is large enough after the swap, and nothing otherwise.
C20_BurnsTheMintedAmount ==
    \A currency_id \in StableCurrencyIds, amount \in SerpAmounts \ {0},
       dex \in DexAnswers :
        LET serping_amount == 3 * (amount \div 10)
            swapped == swap_exact_stablecurrency_to_dinar(SerpState, currency_id,
                                                          serping_amount, dex).st
        IN  BuybackBurnt(SerpState, amount, currency_id, dex)
                = IF swapped.FreeBalance[<<GetNativeCurrencyId, SERP>>] >= serping_amount
                  THEN serping_amount
                  ELSE 0

\* on_serpup with amount 15 has just swapped the 3 USDJ of the buy-back for
\* 300 of the native token and burnt 3 of them: 297 stay with the engine.
C20_Witness ==
    /\ serp_last = [op |-> "on_serpup", result |-> "Ok", currency |-> USDJ,
                    amount |-> 15]
    /\ serp_calls = 1
    /\ FreeBalance[<<USDJ, DEX>>] = 3
    /\ FreeBalance[<<GetNativeCurrencyId, SERP>>] = 297
    /\ TotalIssuance[GetNativeCurrencyId] = 297


---------------------------------------------------------------------------
(* SerpUp: failing legs                                                    *)

\* The buy-back leg fails: its swap or its burn returns an error.
BuybackLegFails(st, amount, currency_id, dex) ==
    LET serping_amount == saturating_mul(3, amount \div 10)
        swapped == swap_exact_stablecurrency_to_dinar(st, currency_id,
                                                      serping_amount, dex)
    IN  \/ swapped.result # "Ok"
        \/ burn_dinar(swapped.st, SERP, serping_amount).result # "Ok"

\* One of the three legs of on_serpup fails.
SomeLegFails(st, amount, currency_id, dex) ==
    LET buyback == get_buyback_serpup(st, amount, currency_id, dex).st
        settpay == get_settpay_serpup(buyback, amount, currency_id).st
    IN  \/ BuybackLegFails(st, amount, currency_id, dex)
        \/ issue_propper(buyback, currency_id, SETTPAY,
                         saturating_mul(6, amount \div 10)).result # "Ok"
        \/ issue_propper(settpay, currency_id, CHARITY, amount \div 10).result # "Ok"

\* C21 as the specification states it: when a leg fails, on_serpup returns
\* an error and the ledger is as before the call; it returns Ok and
\* deposits the SerpUp event only when the three legs succeeded.
C21_AsStated ==
    \A currency_id \in StableCurrencyIds, amount \in SerpAmounts \ {0},
       dex \in DexAnswers :
        LET r == on_serpup(SerpState, currency_id, amount, dex)
        IN  SomeLegFails(SerpState, amount, currency_id, dex) =>
               /\ r.result # "Ok"
               /\ r.st = SerpState
               /\ on_serpup_events(SerpState, currency_id, amount, dex) = << >>

\* What the code does: once the two checks passed, on_serpup returns Ok and
\* deposits the SerpUp event whatever its legs returned, and keeps what the
\* legs did.
C21_LegResultsDropped ==
    \A currency_id \in StableCurrencyIds, amount \in SerpAmounts \ {0},
       dex \in DexAnswers :
        LET r == on_serpup(SerpState, currency_id, amount, dex)
            events == on_serpup_events(SerpState, currency_id, amount, dex)
            buyback == get_buyback_serpup(SerpState, amount, currency_id, dex).st
            settpay == get_settpay_serpup(buyback, amount, currency_id).st
            charity == get_charity_fund_serpup(settpay, amount, currency_id).st
        IN  /\ r.result = "Ok"
            /\ r.st = charity
            /\ events # << >>
            /\ events[Len(events)].event = "SerpUp"

\* on_serpup with amount 1000 has just returned Ok although the DEX refused
\* the swap of the buy-back: the 300 USDJ minted for the swap stay with the
\* engine's account and the other two legs minted 600 and 100.
C21_Witness ==
    /\ serp_last = [op |-> "on_serpup", result |-> "Ok", currency |-> USDJ,
                    amount |-> 1000]
    /\ serp_calls = 1
    /\ FreeBalance[<<USDJ, SERP>>] = 300
    /\ FreeBalance[<<USDJ, DEX>>] = 0
    /\ FreeBalance[<<USDJ, SETTPAY>>] = 600
    /\ TotalIssuance[GetNativeCurrencyId] = 300
    /\ serp_events # << >>


---------------------------------------------------------------------------
(* SerpDown                                                                *)

\* C22 as the specification states it: on_serpdown fails with
\* MinSupplyReached whenever total_supply - amount < minimum_supply, every
\* amount above the total supply included, without a mint or a call to the
\* DEX.
C22_AsStated ==
    \A currency_id \in StableCurrencyIds, amount \in SerpDownAmounts,
       dexq \in DexSupplyAnswers :
        LET r == on_serpdown(SerpState, currency_id, amount, dexq)
        IN  TotalIssuance[currency_id] - amount < get_minimum_supply(currency_id) =>
               /\ r.result = "MinSupplyReached"
               /\ r.st = SerpState
               /\ r.dex_calls = << >>

\* What the code does: the difference saturates at 0, so on_serpdown fails
\* with MinSupplyReached, without a mint or a call to the DEX, exactly when
\* max(total_supply - amount, 0) < minimum_supply; an amount above the
\* total supply of a currency whose floor is 0 passes the check.
C22_SaturatingCheck ==
    \A currency_id \in StableCurrencyIds, amount \in SerpDownAmounts,
       dexq \in DexSupplyAnswers :
        LET r == on_serpdown(SerpState, currency_id, amount, dexq)
            rest == IF amount > TotalIssuance[currency_id] THEN 0
                    ELSE TotalIssuance[currency_id] - amount
        IN  /\ (r.result = "MinSupplyReached") <=> (rest < get_minimum_supply(currency_id))
            /\ r.result = "MinSupplyReached" =>
                  r.st = SerpState /\ r.dex_calls = << >>
            /\ r.result \in {"MinSupplyReached", "Ok"}

\* on_serpdown has just returned Ok for 1500 USDJ with 1300 in issue and a
\* floor of 0, and has quoted the DEX for the swap.
C22_Witness ==
    /\ serp_last.op = "on_serpdown"
    /\ serp_last.result = "Ok"
    /\ serp_last.currency = USDJ
    /\ serp_last.amount = 1500
    /\ serp_last.supply_before = 1300
    /\ GetStableCurrencyMinimumSupply[USDJ] = 0
    /\ dex_calls # << >>

\* C23 as the specification states it: after a successful on_serpdown the
\* total issuance of the currency is lower by amount than before the call.
C23_AsStated ==
    (serp_last.op = "on_serpdown" /\ serp_last.result = "Ok") =>
        TotalIssuance[serp_last.currency] = serp_last.supply_before - serp_last.amount

\* What the code does: on_serpdown burns nothing.  The total issuance of
\* the currency is what it was before the call, and when the supply
\* currency could be minted its issuance has grown by the DEX's quote.
C23_NothingBurnt ==
    \A currency_id \in StableCurrencyIds, amount \in SerpDownAmounts,
       dexq \in DexSupplyAnswers :
        LET r == on_serpdown(SerpState, currency_id, amount, dexq)
            supply_cur == IF currency_id = SetterCurrencyId
                          THEN GetNativeCurrencyId ELSE SetterCurrencyId
        IN  /\ r.st.TotalIssuance[currency_id] = TotalIssuance[currency_id]
            /\ \A c \in LedgerCurrencies \ {supply_cur} :
                  r.st.TotalIssuance[c] = TotalIssuance[c]
            /\ r.st.TotalIssuance[supply_cur] \in
                  {TotalIssuance[supply_cur], TotalIssuance[supply_cur] + dexq.supply}
            /\ Len(r.dex_calls) = 2 =>
                  r.st.TotalIssuance[supply_cur] = TotalIssuance[supply_cur] + dexq.supply

\* on_serpdown has just returned Ok for 200 USDJ and its swap went through:
\* the engine's account holds the 200 USDJ bought, and 1300 USDJ are in
\* issue as before.
C23_Witness ==
    /\ serp_last = [op |-> "on_serpdown", result |-> "Ok", currency |-> USDJ,
                    amount |-> 200, supply_before |-> 1300]
    /\ serp_calls = 1
    /\ FreeBalance[<<USDJ, SERP>>] = 200
    /\ FreeBalance[<<USDJ, DEX>>] = 100
    /\ TotalIssuance[USDJ] = 1300
    /\ TotalIssuance[SetterCurrencyId] = 1301

\* The path on_serpdown swaps along for a currency.
SerpDownPath(currency_id) ==
    IF currency_id = SetterCurrencyId
    THEN <<GetNativeCurrencyId, SetterCurrencyId>>
    ELSE <<SetterCurrencyId, currency_id>>

\* C24: an on_serpdown that passed its checks makes one exact-target swap,
\* along [native, Setter] for Setter and along [Setter, currency] for any
\* other stable currency, for exactly amount: it asks the DEX one quote and
\* at most one swap, each with that path and that target.
C24_SwapByCurrency ==
    \A currency_id \in StableCurrencyIds, amount \in SerpDownAmounts,
       dexq \in DexSupplyAnswers :
        LET r == on_serpdown(SerpState, currency_id, amount, dexq)
        IN  IF r.result # "Ok" THEN r.dex_calls = << >>
            ELSE /\ Len(r.dex_calls) \in {1, 2}
                 /\ r.dex_calls[1].call = "get_swap_supply_amount"
                 /\ Len(r.dex_calls) = 2 =>
                       r.dex_calls[2].call = "swap_with_exact_target"
                 /\ dexq.kind # "NoQuote" /\ TotalIssuance[SerpDownPath(currency_id)[1]] < MaxBalance =>
                       Len(r.dex_calls) = 2
                 /\ \A i \in 1..Len(r.dex_calls) :
                       /\ r.dex_calls[i].path = SerpDownPath(currency_id)
                       /\ r.dex_calls[i].target = amount

\* on_serpdown has swapped for Setter along [native, Setter] and, in another
\* call, for USDJ along [Setter, USDJ]: both swaps went through.
C24_Witness ==
    /\ serp_calls = 2
    /\ serp_last.op = "on_serpdown"
    /\ serp_last.result = "Ok"
    /\ serp_last.currency = USDJ
    /\ serp_last.amount = 15
    /\ Len(dex_calls) = 2
    /\ dex_calls[2].call = "swap_with_exact_target"
    /\ dex_calls[2].path = <<SETR, USDJ>>
    /\ FreeBalance[<<USDJ, SERP>>] = 15
    /\ FreeBalance[<<SETR, SERP>>] = 200
    /\ FreeBalance[<<DNAR, DEX>>] = 301

\* C25: every swap_with_exact_target of the engine follows a quote taken in
\* the same operation for the same path, target and slippage limit; the
\* max_supply_amount it passes is the quoted amount, and the reserves of the
\* path's pool are at the swap what they were at the quote.
C25_QuoteThenSwap ==
    \A currency_id \in StableCurrencyIds, amount \in SerpDownAmounts,
       dexq \in DexSupplyAnswers :
        LET calls == on_serpdown(SerpState, currency_id, amount, dexq).dex_calls
        IN  \A i \in 1..Len(calls) :
               calls[i].call = "swap_with_exact_target" =>
                  /\ i > 1
                  /\ calls[i - 1].call = "get_swap_supply_amount"
                  /\ calls[i - 1].path = calls[i].path
                  /\ calls[i - 1].target = calls[i].target
                  /\ calls[i - 1].limit = calls[i].limit
                  /\ calls[i - 1].supply # None
                  /\ calls[i].supply = calls[i - 1].supply
                  /\ calls[i].reserves = calls[i - 1].reserves

\* on_serpdown has just swapped for 200 Setter: the DEX quoted 1 DNAR with
\* reserves of 300 DNAR and 300 Setter, and the swap was called with a
\* max_supply_amount of 1 on the same reserves.
C25_Witness ==
    /\ serp_last.op = "on_serpdown"
    /\ serp_last.result = "Ok"
    /\ serp_last.currency = SETR
    /\ serp_last.amount = 200
    /\ Len(dex_calls) = 2
    /\ dex_calls[1] = [call |-> "get_swap_supply_amount", path |-> <<DNAR, SETR>>,
                       target |-> 200, limit |-> "MaxSlippageSwapWithDEX",
                       supply |-> 1, reserves |-> <<300, 300>>]
    /\ dex_calls[2] = [call |-> "swap_with_exact_target", path |-> <<DNAR, SETR>>,
                       target |-> 200, limit |-> "MaxSlippageSwapWithDEX",
                       supply |-> 1, reserves |-> <<300, 300>>]
    /\ FreeBalance[<<SETR, DEX>>] = 100


---------------------------------------------------------------------------
(* Auction lots: guard, count and failure                                  *)

\* C26: create_setter_auctions (and auction_reserve, which calls it) fails
\* with ReserveNotEnough and registers no lot whenever the treasury's balance
\* of the currency less the amount in auction, held at 0, is below amount.
C26_ReserveNotEnough ==
    \A cur \in AuctionCurrencies, amount \in ReserveAmounts,
       target \in TargetAmounts, splited \in BOOLEAN, fail_at \in 0..2 :
        LET balance == FreeBalance[<<cur, TREASURY>>]
            free == IF ReserveInAuction[cur] > balance THEN 0
                    ELSE balance - ReserveInAuction[cur]
            r == create_setter_auctions(TreasuryState, cur, amount, target,
                                        TREASURY, splited, fail_at)
            x == auction_reserve(TreasuryState, "Root", cur, amount, target,
                                 splited, fail_at)
        IN  /\ free < amount =>
                  /\ r.result = "ReserveNotEnough"
                  /\ r.st = TreasuryState
                  /\ x.result = "ReserveNotEnough"
                  /\ x.st = TreasuryState
            /\ free >= amount => r.result # "ReserveNotEnough"

\* auction_reserve has just failed with ReserveNotEnough: the treasury holds
\* 0 while 25 are in auction, in the three lots of an earlier call, so the
\* difference is held at 0.
C26_Witness ==
    /\ t_last = [op |-> "auction_reserve", result |-> "ReserveNotEnough"]
    /\ FreeBalance[<<SETR, TREASURY>>] = 0
    /\ ReserveInAuction[SETR] = 25
    /\ Len(Lots) = 3

\* ceil(amount / size) for size > 0.
CeilDiv(amount, size) ==
    (amount \div size) + (IF amount % size = 0 THEN 0 ELSE 1)

\* C27: a successful create_setter_auctions with amount > 0 registers
\* exactly 1 lot, carrying the full amount and target, when splitting is not
\* allowed, or the expected lot size is 0, or amount <= expected lot size,
\* and otherwise exactly min(ceil(amount / expected lot size), maximum lot
\* count) lots; with amount = 0 it registers no lot.
C27_LotCount ==
    \A cur \in AuctionCurrencies, amount \in ReserveAmounts,
       target \in TargetAmounts, splited \in BOOLEAN :
        LET r == create_setter_auctions(TreasuryState, cur, amount, target,
                                        TREASURY, splited, 0)
            size == ExpectedSetterAuctionSize[cur]
            lots == r.st.Lots
        IN  r.result = "Ok" =>
              IF amount = 0 THEN lots = << >>
              ELSE IF ~splited \/ size = 0 \/ amount <= size
              THEN lots = <<[amount |-> amount, target |-> target]>>
              ELSE Len(lots) = Min(CeilDiv(amount, size), MaxAuctionsCount)

\* auction_reserve has just split 100 of reserve under an expected lot size
\* of 1: ceil(100 / 1) = 100 lots are capped at the 10 allowed.
C27_Witness ==
    /\ t_last = [op |-> "auction_reserve", result |-> "Ok"]
    /\ ExpectedSetterAuctionSize[SETR] = 1
    /\ ReserveInAuction[SETR] = 100
    /\ Len(Lots) = MaxAuctionsCount
    /\ Lots[1].amount = 100 \div MaxAuctionsCount

\* C27 as the specification states it: the single-lot case includes
\* amount = 0.
C27_AsStated ==
    \A cur \in AuctionCurrencies, amount \in ReserveAmounts,
       target \in TargetAmounts, splited \in BOOLEAN :
        LET r == create_setter_auctions(TreasuryState, cur, amount, target,
                                        TREASURY, splited, 0)
            size == ExpectedSetterAuctionSize[cur]
            lots == r.st.Lots
        IN  r.result = "Ok" =>
              IF ~splited \/ size = 0 \/ amount <= size
              THEN lots = <<[amount |-> amount, target |-> target]>>
              ELSE Len(lots) = Min(CeilDiv(amount, size), MaxAuctionsCount)

\* C28 as the specification states it: when the auction subsystem rejects
\* a lot, create_setter_auctions returns the error and no lot it created
\* before remains registered: the reserve in auction is as before the call.
C28_AsStated ==
    \A cur \in AuctionCurrencies, amount \in ReserveAmounts,
       target \in TargetAmounts, splited \in BOOLEAN, fail_at \in 1..2 :
        LET r == create_setter_auctions(TreasuryState, cur, amount, target,
                                        TREASURY, splited, fail_at)
        IN  r.result = "AuctionError" =>
               /\ r.st.Lots = << >>
               /\ r.st.ReserveInAuction = ReserveInAuction

\* C28: what the code does.  When the auction subsystem rejects a lot,
\* create_setter_auctions returns that error having attempted no lot after
\* the rejected one, and the lots before it stay registered with their
\* reserve in auction; only the extrinsic auction_reserve, which is
\* transactional, returns the error and leaves the lots and the reserve in
\* auction as they were before it.
C28_RejectedLot ==
    \A cur \in AuctionCurrencies, amount \in ReserveAmounts,
       target \in TargetAmounts, splited \in BOOLEAN, fail_at \in 1..2 :
        LET ok == create_setter_auctions(TreasuryState, cur, amount, target,
                                         TREASURY, splited, 0)
            r == create_setter_auctions(TreasuryState, cur, amount, target,
                                        TREASURY, splited, fail_at)
            x == auction_reserve(TreasuryState, "Root", cur, amount, target,
                                 splited, fail_at)
        IN  (ok.result = "Ok" /\ Len(ok.st.Lots) >= fail_at) =>
               /\ r.result = "AuctionError"
               /\ Len(r.st.Lots) = fail_at - 1
               /\ r.st.Lots = SubSeq(ok.st.Lots, 1, fail_at - 1)
               /\ r.st.ReserveInAuction[cur] =
                      saturating_add(ReserveInAuction[cur],
                                     SumLots(r.st.Lots, "amount"))
               /\ x.result = "AuctionError"
               /\ x.st = TreasuryState

\* create_setter_auctions, called through SerpTreasuryExtended, has just
\* failed on the second lot of a split of 25 with target 7: the first lot
\* is registered and its 8 are in auction.
C28_Witness ==
    /\ t_last = [op |-> "create_setter_auctions", result |-> "AuctionError"]
    /\ Lots = <<[amount |-> 8, target |-> 2]>>
    /\ ReserveInAuction[SETR] = 8
    /\ ExpectedSetterAuctionSize[SETR] = 10


---------------------------------------------------------------------------
(* Position ledger: overflow and failing transfers                         *)

\* C29: in every reachable state, an update_position or adjust_position
\* whose resulting reserve or standard would exceed the Balance range fails
\* and leaves positions, totals, reference counts and ledger balances as
\* they were; it fails with Overflow unless the same call would take the
\* other field below zero, where it fails with Underflow.
C29_OverflowIsNoop ==
    \A who \in Accounts, c \in PosCurrencies, rd \in DeltaAmounts, sd \in DeltaAmounts :
        LET p == positions(Positions, c, who)
            over == p.reserve + rd > MaxBalance \/ p.standard + sd > MaxBalance
            under == p.reserve + rd < 0 \/ p.standard + sd < 0
            u == update_position(PosState, who, c, rd, sd)
            a == adjust_position(PosState, who, c, rd, sd)
        IN  over =>
               /\ u.result = (IF under THEN "Underflow" ELSE "Overflow")
               /\ u.st = PosState
               /\ a.result = u.result
               /\ a.st = PosState

\* C29 as the specification states it: every such call fails with Overflow.
C29_AsStated ==
    \A who \in Accounts, c \in PosCurrencies, rd \in DeltaAmounts, sd \in DeltaAmounts :
        LET p == positions(Positions, c, who)
            over == p.reserve + rd > MaxBalance \/ p.standard + sd > MaxBalance
            u == update_position(PosState, who, c, rd, sd)
            a == adjust_position(PosState, who, c, rd, sd)
        IN  over =>
               /\ u.result = "Overflow"
               /\ u.st = PosState
               /\ a.result = "Overflow"
               /\ a.st = PosState

\* An update has just failed with Overflow: ALICE's reserve is 2 * MaxAmount
\* and one more MaxAmount does not fit the Balance range.
C29_Witness ==
    /\ pos_last.op \in {"update_position", "adjust_position"}
    /\ pos_last.result = "Overflow"
    /\ positions(Positions, EURJ, ALICE).reserve = 2 * MaxAmount
    /\ positions(Positions, EURJ, ALICE).reserve + MaxAmount > MaxBalance
    /\ TotalPositions[EURJ].reserve = 2 * MaxAmount

\* C30: transfer_position fails when `from` has no record for the currency,
\* and a transfer_position that fails leaves the position records of both
\* accounts, the totals, the reference counts and the ledger as they were.
C30_FailingTransferIsNoop ==
    \A from \in Accounts, to \in Accounts, c \in PosCurrencies :
        LET r == transfer_position(PosState, from, to, c)
        IN  /\ ~contains_key(Positions, c, from) => r.result = "NoPosition"
            /\ r.result # "Ok" => r.st = PosState
            /\ r.result = "Ok" =>
                  /\ contains_key(Positions, c, from)
                  /\ from # to => ~contains_key(r.st.Positions, c, from)
                  /\ contains_key(r.st.Positions, c, to)

\* transfer_position from BOB, who has no position, onto ALICE has just
\* failed: ALICE's record, the totals and the reference counts stand.
C30_Witness ==
    /\ pos_last = [op |-> "transfer_position", result |-> "NoPosition",
                   from |-> BOB, to |-> ALICE]
    /\ ~contains_key(Positions, EURJ, BOB)
    /\ positions(Positions, EURJ, ALICE) = [reserve |-> MaxAmount, standard |-> MaxAmount]
    /\ TotalPositions[EURJ] = [reserve |-> MaxAmount, standard |-> MaxAmount]
    /\ Consumers[ALICE] = consumers0[ALICE] + 1
    /\ Consumers[BOB] = consumers0[BOB]


---------------------------------------------------------------------------
(* Position ledger: what moves on the currency ledger                      *)

C32_UpdateMovesNoFunds ==
    \A who \in Accounts, c \in PosCurrencies, rd \in DeltaAmounts, sd \in DeltaAmounts :
        LET r == update_position(PosState, who, c, rd, sd)
        IN  /\ r.st.FreeBalance = FreeBalance
            /\ r.st.TotalIssuance = TotalIssuance
            /\ r.result = "Ok" =>
                  /\ positions(r.st.Positions, c, who) =
                         [reserve |-> positions(Positions, c, who).reserve + rd,
                          standard |-> positions(Positions, c, who).standard + sd]
                  /\ \A a \in Accounts \ {who} :
                         /\ positions(r.st.Positions, c, a) = positions(Positions, c, a)
                         /\ r.st.Consumers[a] = Consumers[a]

\* update_position has just opened a position for BOB, who has never
\* adjusted one: BOB still holds the 1000 of the reserve currency and of the
\* standard currency of the genesis, and the module's account holds nothing.
C32_Witness ==
    /\ pos_last.op = "update_position" /\ pos_last.result = "Ok"
    /\ positions(Positions, EURJ, BOB) = [reserve |-> MaxAmount, standard |-> MaxAmount]
    /\ ~contains_key(Positions, EURJ, ALICE)
    /\ applied[BOB] = [reserve |-> MaxAmount, standard |-> MaxAmount]
    /\ FreeBalance[<<SETR, BOB>>] = EndowedBalance
    /\ FreeBalance[<<EURJ, BOB>>] = EndowedBalance
    /\ FreeBalance[<<SETR, SETTMINT>>] = 0
    /\ Consumers[BOB] = consumers0[BOB] + 1


---------------------------------------------------------------------------
(* Currency ledger                                                         *)

\* The step is a successful operation that deposits (mints) or withdraws
\* (burns): adjust_position, the offset step, on_system_serplus,
\* issue_standard, burn_standard, on_serpup, on_serpdown, a block whose
\* on_initialize ran the elasticity passes, or a swap helper, whose deposit
\* to the engine's account stays when a later step of the helper fails.
MintOrBurnStep ==
    \/ pos_last'.op = "adjust_position" /\ pos_last'.result = "Ok"
    \/ /\ t_last'.op \in {"on_finalize", "on_system_serplus", "issue_standard",
                          "burn_standard", "issue_dexer", "burn_dexer"}
       /\ t_last'.result = "Ok"
    \/ serp_last'.op \in {"on_serpup", "on_serpdown"} /\ serp_last'.result = "Ok"
    \/ /\ serp_last'.op \in {"issue_standard", "burn_standard", "issue_propper",
                             "burn_propper", "issue_setter", "burn_setter",
                             "issue_dinar", "burn_dinar", "issue_dexer",
                             "burn_dexer", "get_buyback_serpup",
                             "get_settpay_serpup", "get_charity_fund_serpup",
                             "setter_on_tes", "usdj_on_tes"}
       /\ serp_last'.result = "Ok"
    \/ /\ serp_last'.op \in {"swap_exact_dinar_to_setter",
                             "swap_dinar_to_exact_setter",
                             "swap_setter_to_exact_settcurrency",
                             "swap_exact_stablecurrency_to_dinar"}
       /\ serp_last'.result # "TotalIssuanceOverflow"
    \/ block_number' # block_number /\ tes_last'.passes # << >>

\* C33: in every reachable state the total issuance of every currency is
\* the sum of the balances of all accounts in it, and a step changes a total
\* issuance only when it is a successful operation that deposits or
\* withdraws: transfers, update_position, transfer_position and operations
\* that return an error leave every total issuance as it was.
C33_IssuanceIsSumOfBalances ==
    /\ [](\A c \in LedgerCurrencies :
             TotalIssuance[c] = SumBalances(FreeBalance, c, LedgerAccounts))
    /\ [][TotalIssuance' # TotalIssuance => MintOrBurnStep]_vars

\* C33 as the specification states it: the total issuance is the sum of the
\* balances and changes only in steps of mints and burns; an operation that
\* fails leaves it as it was.
C33_AsStated ==
    /\ [](\A c \in LedgerCurrencies :
             TotalIssuance[c] = SumBalances(FreeBalance, c, LedgerAccounts))
    /\ [][TotalIssuance' # TotalIssuance =>
             \/ pos_last'.op = "adjust_position" /\ pos_last'.result = "Ok"
             \/ /\ t_last'.op \in {"on_finalize", "on_system_serplus",
                                   "issue_standard", "burn_standard",
                                   "issue_dexer", "burn_dexer"}
                /\ t_last'.result = "Ok"
             \/ serp_last'.result = "Ok"
             \/ block_number' # block_number /\ tes_last'.passes # << >>]_vars

\* transfer_position has just moved ALICE's position onto BOB after an
\* adjust_position that issued 150 of the standard currency to ALICE and
\* moved 250 of the reserve currency to the module's account.
C33_Witness ==
    /\ pos_last = [op |-> "transfer_position", result |-> "Ok",
                   from |-> ALICE, to |-> BOB]
    /\ TotalIssuance[EURJ] = 2150
    /\ FreeBalance[<<EURJ, ALICE>>] = 1150
    /\ TotalIssuance[SETR] = 2000
    /\ FreeBalance[<<SETR, SETTMINT>>] = 250
    /\ FreeBalance[<<SETR, ALICE>>] = 750
    /\ FreeBalance[<<SETR, BOB>>] = 1000


---------------------------------------------------------------------------
(* Elasticity engine: schedule                                             *)

\* C34: on_initialize runs the elasticity passes in block `now` exactly
\* when now is a multiple of SerpTesSchedule; in every other block it
\* returns weight 0, calls no on_serpup / on_serpdown, deposits no event and
\* changes nothing but the block number.
C34_PassOnSchedule ==
    /\ [](block_number > 0 =>
            /\ tes_last.now = block_number
            /\ (block_number % SerpTesSchedule = 0) <=> (tes_last.passes # << >>)
            /\ block_number % SerpTesSchedule # 0 =>
                  /\ tes_last.weight = 0
                  /\ tes_last.result = "Ok"
                  /\ serp_events = << >>)
    /\ [][(block_number' # block_number /\ block_number' % SerpTesSchedule # 0) =>
             /\ block_number' = block_number + 1
             /\ UNCHANGED <<pos_vars, ledger_vars, treasury_vars, serp_vars>>
             /\ tes_last'.passes = << >>]_vars

\* Block 3 has just begun without a pass, after block 2 whose pass expanded
\* the supply of Setter, and block 1 without one.
C34_Witness ==
    /\ SerpTesSchedule = 2
    /\ block_number = 3
    /\ tes_last = [now |-> 3, weight |-> 0, result |-> "Ok", passes |-> << >>]
    /\ serp_events = << >>
    /\ TotalIssuance[SetterCurrencyId] > 1300



\* C35: auction_serplus(amount) fails with SerplusPoolNotEnough unless the
\* serplus pool minus the serplus in auction (saturating at 0) is at least
\* amount; auction_standard(standard_amount, price) fails with
\* StandardPoolNotEnough unless the standard pool minus the standard in
\* auction (saturating at 0) is at least standard_amount; a caller that is
\* not the update origin is rejected, and a rejected call creates no auction.
C35_PoolNotEnough ==
    \A origin \in Origins, amount \in PoolAmounts, rejected \in BOOLEAN :
        LET st == TreasuryState
            s == auction_serplus(st, origin, amount, rejected)
            d == auction_standard(st, origin, amount, 1, rejected)
            free_serplus == IF serpluspool(st) > SerplusInAuction
                            THEN serpluspool(st) - SerplusInAuction ELSE 0
            free_standard == IF StandardPool > StandardInAuction
                             THEN StandardPool - StandardInAuction ELSE 0
        IN  /\ origin # "Root" => s.result = "BadOrigin" /\ d.result = "BadOrigin"
            /\ origin = "Root" =>
                   /\ (s.result = "SerplusPoolNotEnough") <=> (free_serplus < amount)
                   /\ (d.result = "StandardPoolNotEnough") <=> (free_standard < amount)
                   /\ (s.result = "Ok") <=> (free_serplus >= amount /\ ~rejected)
                   /\ (d.result = "Ok") <=> (free_standard >= amount /\ ~rejected)
            /\ s.result # "Ok" => s.st = st
            /\ d.result # "Ok" => d.st = st
            /\ s.result = "Ok" =>
                   s.st = [st EXCEPT !.SerplusInAuction = SerplusInAuction + amount]
            /\ d.result = "Ok" =>
                   d.st = [st EXCEPT !.StandardInAuction = StandardInAuction + amount]

\* A serplus auction was refused although the serplus pool is not empty:
\* more serplus is in auction than the pool holds, and standard is in
\* auction as well.
C35_Witness ==
    /\ t_last.op = "auction_serplus"
    /\ t_last.result = "SerplusPoolNotEnough"
    /\ serpluspool(TreasuryState) > 0
    /\ SerplusInAuction > serpluspool(TreasuryState)
    /\ StandardInAuction > 0


\* The amounts the lot-creation loop is run with.
LoopAmounts == {0, 1, 2, 9, 10, 11, 19, 20, 21, 25, 99, 100}

RECURSIVE SumFirstLots(_, _)
\* The reserve handled by the first k lots.
SumFirstLots(lots, k) ==
    IF k = 0 THEN 0 ELSE lots[k].amount + SumFirstLots(lots, k - 1)

\* C36: the lot-creation loop of create_setter_auctions terminates for every
\* input; the lot count is at least 1, the average lot is at least 1 when
\* the count is above 1, and when every lot is created and amount > 0 the
\* loop runs exactly lots_count times: the unhandled amount reaches 0 at the
\* lots_count-th lot and not before.
C36_LoopRunsLotsCountTimes ==
    \A cur \in AuctionCurrencies, amount \in LoopAmounts,
       target \in TargetAmounts, splited \in BOOLEAN :
        LET st == TreasuryState
            count == lots_count(st, cur, amount, splited)
            r == create_setter_auctions(st, cur, amount, target, TREASURY,
                                        splited, 0)
            lots == r.st.Lots
        IN  /\ count >= 1
            /\ count > 1 => amount \div count >= 1
            /\ \A fail_at \in 0..MaxAuctionsCount :
                   create_setter_auctions(st, cur, amount, target, TREASURY,
                                          splited, fail_at).result
                       \in {"Ok", "AuctionError", "ReserveNotEnough"}
            /\ (r.result = "Ok" /\ amount > 0) =>
                   /\ Len(lots) = count
                   /\ \A k \in 1..Len(lots) :
                          /\ lots[k].amount >= 1
                          /\ (SumFirstLots(lots, k) = amount) <=> (k = count)

\* An auction of 25 with lots of 10 ran the loop three times: 8, 8 and the
\* remaining 9.
C36_Witness ==
    /\ t_last = [op |-> "auction_reserve", result |-> "Ok"]
    /\ ExpectedSetterAuctionSize[SETR] = 10
    /\ LotAmounts(Lots) = <<8, 8, 9>>


\* C37 as the specification states it: for every pair of available prices,
\* a price of 0 included, the pass evaluates get_supply_change without an
\* arithmetic fault.
C37_AsStated ==
    \A currency_id \in TesCurrencies, market \in 0..MaxFeedPrice,
       peg \in 0..MaxFeedPrice, dex \in DexAnswers, dexq \in DexSupplyAnswers :
        \A o \in serp_tes(SerpState, currency_id, market, peg, dex, dexq) :
            o.result # "Panicked"

\* C37: what the pass does instead.  `nume / deno - 1` never underflows,
\* the larger price being the numerator, and the pass has one outcome in
\* every build when the smaller price is not 0; when the prices differ and
\* the smaller one is 0, the division panics.
C37_PanicsOnZeroPrice ==
    \A currency_id \in TesCurrencies, market \in 0..MaxFeedPrice,
       peg \in 0..MaxFeedPrice, dex \in DexAnswers, dexq \in DexSupplyAnswers :
        LET os == serp_tes(SerpState, currency_id, market, peg, dex, dexq)
            nume == IF market > peg THEN market ELSE peg
            deno == IF market > peg THEN peg ELSE market
        IN  /\ \A o \in os :
                  (o.result = "Panicked") <=> (market # peg /\ deno = 0)
            /\ (market # peg /\ deno # 0) =>
                  /\ nume \div deno >= 1
                  /\ Cardinality(os) = 1

\* The cycle of a block has just panicked in the Setter pass: the market
\* price was 1 and the peg price 0.
C37_Witness ==
    /\ tes_last.result = "Panicked"
    /\ Len(tes_last.passes) = 1
    /\ tes_last.passes[1].market = 1
    /\ tes_last.passes[1].peg = 0


\* C38: at the end of every block, after the offset step of on_finalize, the
\* standard pool or the serplus pool is zero, whatever on_system_standard,
\* on_system_serplus, deposits and auctions came before.
C38_OnePoolEmptyAfterFinalize ==
    t_last.op = "on_finalize" =>
        (StandardPool = 0 \/ serpluspool(TreasuryState) = 0)

\* The end of a block has just offset the whole standard pool against a
\* larger serplus pool of which a part is in auction.
C38_Witness ==
    /\ t_last.op = "on_finalize"
    /\ last_offset = MaxAmount
    /\ StandardPool = 0
    /\ serpluspool(TreasuryState) = MaxAmount
    /\ SerplusInAuction = MaxAmount

\* C39: the standard pool is changed only by on_system_standard, which never
\* lowers it, and by the offset step, which never raises it; the auction
\* extrinsics, the lot size setter, the swaps and every issue, burn, deposit
\* and withdrawal leave it as it is.
C39_StandardPoolFrame ==
    [][StandardPool' # StandardPool =>
          \/ t_last'.op = "on_system_standard" /\ StandardPool' > StandardPool
          \/ t_last'.op = "on_finalize" /\ StandardPool' < StandardPool]_vars

\* An auction of the whole standard pool has just been created and the pool
\* still has its value.
C39_Witness ==
    /\ t_last = [op |-> "auction_standard", result |-> "Ok"]
    /\ StandardPool = MaxAmount
    /\ StandardInAuction = MaxAmount


---------------------------------------------------------------------------
(* Elasticity engine: swap paths                                           *)

\* C40 as the specification states it: a swap helper given an explicit path
\* that has fewer than 2 elements, or does not start with the helper's
\* source currency, or does not end with its target currency, fails with
\* InvalidSwapPath, calls no DEX function and leaves every balance and total
\* issuance as before the call.
C40_AsStated ==
    \A amount \in SwapAmounts, path \in SwapPaths, dex \in DexAnswers,
       dexq \in DexSupplyAnswers, currency_id \in StableCurrencyIds :
        LET st == SerpState
            rejected(r) == /\ r.result = "InvalidSwapPath"
                           /\ r.dex_calls = << >>
                           /\ r.st = st
        IN  /\ ~valid_swap_path(path, DNAR, SETR) =>
                  /\ rejected(swap_exact_dinar_to_setter(st, amount, SomePath(path), dex))
                  /\ rejected(swap_dinar_to_exact_setter_path(st, amount, SomePath(path), dexq))
            /\ ~valid_swap_path(path, SETR, currency_id) =>
                  rejected(swap_setter_to_exact_settcurrency_path(
                               st, currency_id, amount, SomePath(path), dexq))
            /\ ~valid_swap_path(path, currency_id, DNAR) =>
                  rejected(swap_exact_stablecurrency_to_dinar_path(
                               st, currency_id, amount, SomePath(path), dex))

\* C40: what the helpers do instead.  The two helpers that swap to an exact
\* target reject such a path with InvalidSwapPath before anything is done.
\* The two that swap an exact supply mint the supply to the engine's account
\* first: the mint stays when the path is rejected, and a mint that fails
\* gives its own error.  No helper calls the DEX for a rejected path; an
\* accepted path, or the default [source, target] when no path is given, is
\* the path of every DEX call.
C40_MintBeforePathCheck ==
    \A amount \in SwapAmounts, maybe_path \in MaybePaths :
        LET st == SerpState
            given(source, target) ==
                IF maybe_path.some THEN maybe_path.path ELSE <<source, target>>
            refused(source, target) ==
                maybe_path.some /\ ~valid_swap_path(maybe_path.path, source, target)
            accepted(r, source, target) ==
                /\ r.result # "InvalidSwapPath"
                /\ r.dex_calls # << >>
                /\ \A i \in 1..Len(r.dex_calls) :
                       r.dex_calls[i].path = given(source, target)
            exact_target(r, source, target) ==
                IF refused(source, target)
                THEN r.result = "InvalidSwapPath" /\ r.dex_calls = << >> /\ r.st = st
                ELSE accepted(r, source, target)
            exact_supply(r, source, target) ==
                LET d == ledger_deposit(st, source, SERP, amount)
                IN  IF ~d.ok
                    THEN /\ r.result = "TotalIssuanceOverflow"
                         /\ r.dex_calls = << >>
                         /\ r.st = st
                    ELSE IF refused(source, target)
                    THEN r.result = "InvalidSwapPath" /\ r.dex_calls = << >> /\ r.st = d.st
                    ELSE accepted(r, source, target)
        IN  /\ \A dex \in DexAnswers :
                  /\ exact_supply(swap_exact_dinar_to_setter(st, amount, maybe_path, dex),
                                  DNAR, SETR)
                  /\ \A currency_id \in StableCurrencyIds :
                         exact_supply(swap_exact_stablecurrency_to_dinar_path(
                                          st, currency_id, amount, maybe_path, dex),
                                      currency_id, DNAR)
            /\ \A dexq \in DexSupplyAnswers :
                  /\ exact_target(swap_dinar_to_exact_setter_path(st, amount,
                                                                  maybe_path, dexq),
                                  DNAR, SETR)
                  /\ \A currency_id \in StableCurrencyIds :
                         exact_target(swap_setter_to_exact_settcurrency_path(
                                          st, currency_id, amount, maybe_path, dexq),
                                      SETR, currency_id)

\* swap_exact_dinar_to_setter(100, [SETR, DNAR]) has just failed with
\* InvalidSwapPath without a call to the DEX, and the 100 Dinar minted for
\* the swap are in issue.
C40_Witness ==
    /\ serp_last.op = "swap_exact_dinar_to_setter"
    /\ serp_last.result = "InvalidSwapPath"
    /\ serp_last.path = SomePath(<<SETR, DNAR>>)
    /\ serp_last.amount = 100
    /\ dex_calls = << >>
    /\ TotalIssuance[DNAR] = serp_last.issuance_before[DNAR] + 100
    /\ FreeBalance[<<DNAR, SERP>>] >= 100

===========================================================================
